---- MODULE Spec2Model ----
(***************************************************************************)
(* Variables RPC endpoint of the server (nomad/variables_endpoint.go):     *)
(* Apply and RenewLock over the replicated variables table and the         *)
(* leader-local lock TTL timers; and the user cache of helper/users        *)
(* (cache.go): GetUser under concurrent callers.                           *)
(*                                                                         *)
(* The endpoint is translated from the source.  The parts it calls but     *)
(* that are not in the source tree (the state store's variable             *)
(* transactions, the lock TTL timers, Canonicalize/Validate of the         *)
(* structs package, the ACL object) are modelled from the specification.   *)
(***************************************************************************)
EXTENDS Integers, Sequences, FiniteSets, TLC

\* ------------------------------------------------------------------ bounds

\* Client writes are accepted while the raft index is below MaxIndex.
MaxIndex == 4

\* Saturation point of the elapsed-time observers in hist.
MaxSince == 3

\* The clock of the user cache stops at MaxClock.
MaxClock == 5

\* ------------------------------------------------------------- input sets

Paths == {"a"}

\* "" is the empty path of a malformed request.
ReqPaths == Paths \cup {""}

LockIDs == {"L1", "L2"}

\* structs.DefaultLockTTL and structs.DefaultLockDelay, in clock ticks
DefaultLockTTL == 2
DefaultLockDelay == 1

ActiveKeyID == "key1"

\* ------------------------------------------------------------- data model

\* structs.VariableLock; nil marks the Go nil pointer
NilLock == [nil |-> TRUE, ID |-> "", TTL |-> 0, LockDelay |-> 0]

MkLock(id, ttl, delay) == [nil |-> FALSE, ID |-> id, TTL |-> ttl, LockDelay |-> delay]

\* structs.VariableItems: a Go map (set of key/value pairs); nil marks the nil map
NilItems == [nil |-> TRUE, m |-> {}]

MkItems(m) == [nil |-> FALSE, m |-> m]

WriteItems == {MkItems({<<"k", "v1">>}), MkItems({<<"k", "v2">>})}

\* bytes of a JSON document: "none" is the empty byte string
NoBytes == [kind |-> "none", obj |-> {}]

\* ciphertext: the key it was sealed under and the bytes sealed
NoData == [kid |-> "", ct |-> NoBytes]

\* structs.VariableMetadata
NilMeta == [nil |-> TRUE, Path |-> "", CreateIndex |-> 0, ModifyIndex |-> 0, Lock |-> NilLock]

\* structs.VariableEncrypted = VariableMetadata + VariableData{Data, KeyID}
NilVarEnc == [nil |-> TRUE, Path |-> "", CreateIndex |-> 0, ModifyIndex |-> 0,
              Lock |-> NilLock, Data |-> NoData, KeyID |-> ""]

\* structs.VariableDecrypted = VariableMetadata + Items
NilVarDec == [nil |-> TRUE, Path |-> "", CreateIndex |-> 0, ModifyIndex |-> 0,
              Lock |-> NilLock, Items |-> NilItems]

MetaOf(v) == [nil |-> v.nil, Path |-> v.Path, CreateIndex |-> v.CreateIndex,
              ModifyIndex |-> v.ModifyIndex, Lock |-> v.Lock]

\* the Var of a VariablesApplyRequest
MkReqVar(path, idx, lock, items) ==
    [nil |-> FALSE, Path |-> path, CreateIndex |-> 0, ModifyIndex |-> idx,
     Lock |-> lock, Items |-> items]

\* ------------------------------------------------------------------- ACL

\* Callers stand for the ACL objects ResolveACL can return; "anon" fails
\* Authenticate.
Callers == {"mgmt", "rw", "blind", "ro", "writer", "destroyer", "scoped", "anon"}

AuthOK(c) == c # "anon"

IsManagement(c) == c = "mgmt"

AllowVariableOperation(c, cap) ==
    CASE c = "mgmt"  -> TRUE
      [] c = "rw"    -> cap \in {"write", "destroy", "read", "list"}
      [] c = "blind" -> cap \in {"write", "destroy"}
      [] c = "ro"    -> cap \in {"read", "list"}
      [] c = "writer"    -> cap \in {"write", "read", "list"}
      [] c = "destroyer" -> cap \in {"destroy", "read", "list"}
      [] c = "scoped"    -> cap \in {"read", "list"}
      [] OTHER       -> FALSE

\* the namespace sentinel of a request for every namespace
AllNamespacesSentinel == "*"

\* the namespace of the variable stored under a path of the model
NamespaceOf(path) == IF path = "aa" THEN "prod" ELSE "default"

\* the paths the policy of "scoped" names; every other policy names all paths
ScopedPaths == {"a", "aa"}

\* ACL.AllowVariableOperation(ns, path, op): the capability on one variable
AllowVariableOperationAt(c, ns, path, cap) ==
    /\ AllowVariableOperation(c, cap)
    /\ c = "scoped" => path \in ScopedPaths /\ ns = NamespaceOf(path)

\* ------------------------------------------------------------ error values

ErrNone == ""
ErrPermissionDenied == "Permission denied"
ErrNilVar == "variable must not be nil"
ErrVersion == "all servers must be running version or later to apply variables"
ErrUnexpectedOp == "svPreApply: unexpected VarOp received"
ErrEncrypt == "variable error: encrypt"
ErrRaftApply == "raft apply failed"
ErrInvalid == "invalid argument"
errVarAlreadyLocked == "variable already holds a lock"
errVarNotFound == "variable doesn't exist"
errLockNotFound == "variable doesn't hold a lock"
errVarIsLocked == "attempting to modify locked variable"
errMissingLockInfo == "missing lock information"
errLockOnVarCreation == "variable should not contain lock definition"
errItemsOnRelease == "lock release operation doesn't take variable items"
errNoPath == "delete requires a Path"

VarOps == {"set", "cas", "delete", "delete-cas", "lock-acquire", "lock-release"}

\* ---------------------------------------------------------------- crypto

\* json.Marshal of the items: a nil map marshals to null
Marshal(items) ==
    IF items.nil THEN [kind |-> "null", obj |-> {}]
    ELSE [kind |-> "obj", obj |-> items.m]

\* json.Unmarshal into a freshly made map: null leaves the map empty
Unmarshal(b) == IF b.kind = "obj" THEN MkItems(b.obj) ELSE MkItems({})

\* Encrypter.Encrypt: seals the bytes under the active key
EncrypterEncrypt(b) == [Data |-> [kid |-> ActiveKeyID, ct |-> b], KeyID |-> ActiveKeyID]

\* Encrypter.Decrypt: opens the bytes, fails when the key is not the sealing key
EncrypterDecrypt(data, keyID) ==
    IF keyID # "" /\ data.kid = keyID
    THEN [err |-> ErrNone, b |-> data.ct]
    ELSE [err |-> "no such key", b |-> NoBytes]

\* encrypt that does not carry the caller's expected index over
encrypt_DropsModifyIndex(v) ==
    LET sealed == EncrypterEncrypt(Marshal(v.Items))
    IN  [nil |-> FALSE, Path |-> v.Path, CreateIndex |-> v.CreateIndex,
         ModifyIndex |-> 0, Lock |-> v.Lock,
         Data |-> sealed.Data, KeyID |-> sealed.KeyID]

\* Variables.encrypt
encrypt(v) ==
    LET sealed == EncrypterEncrypt(Marshal(v.Items))
    IN  [nil |-> FALSE, Path |-> v.Path, CreateIndex |-> v.CreateIndex,
         ModifyIndex |-> v.ModifyIndex, Lock |-> v.Lock,
         Data |-> sealed.Data, KeyID |-> sealed.KeyID]

\* decrypt that leaves out json.Unmarshal
decrypt_NoUnmarshal(ev) ==
    LET opened == EncrypterDecrypt(ev.Data, ev.KeyID)
    IN  IF opened.err # ErrNone
        THEN [err |-> opened.err, dv |-> NilVarDec]
        ELSE [err |-> ErrNone,
              dv |-> [nil |-> FALSE, Path |-> ev.Path, CreateIndex |-> ev.CreateIndex,
                      ModifyIndex |-> ev.ModifyIndex, Lock |-> ev.Lock,
                      Items |-> MkItems({})]]

\* decrypt that does not copy the metadata into the decrypted variable
decrypt_DropsMetadata(ev) ==
    LET opened == EncrypterDecrypt(ev.Data, ev.KeyID)
    IN  IF opened.err # ErrNone
        THEN [err |-> opened.err, dv |-> NilVarDec]
        ELSE [err |-> ErrNone,
              dv |-> [NilVarDec EXCEPT !.nil = FALSE, !.Items = Unmarshal(opened.b)]]

\* Variables.decrypt
decrypt(ev) ==
    LET opened == EncrypterDecrypt(ev.Data, ev.KeyID)
    IN  IF opened.err # ErrNone
        THEN [err |-> opened.err, dv |-> NilVarDec]
        ELSE [err |-> ErrNone,
              dv |-> [nil |-> FALSE, Path |-> ev.Path, CreateIndex |-> ev.CreateIndex,
                      ModifyIndex |-> ev.ModifyIndex, Lock |-> ev.Lock,
                      Items |-> Unmarshal(opened.b)]]

\* ------------------------------------------- canonicalize and validate

\* structs.ValidatePath
ValidatePath(path) == IF path = "" THEN ErrInvalid ELSE ErrNone

\* VariableLock.Canonicalize: the store generates the ID (gen) and fills the
\* defaults of TTL and LockDelay
LockCanonicalize(lock, gen) ==
    IF lock.nil THEN lock
    ELSE MkLock(IF lock.ID = "" THEN gen ELSE lock.ID,
                IF lock.TTL = 0 THEN DefaultLockTTL ELSE lock.TTL,
                IF lock.LockDelay = 0 THEN DefaultLockDelay ELSE lock.LockDelay)

\* VariableDecrypted.Canonicalize
Canonicalize(v, gen) == [v EXCEPT !.Lock = LockCanonicalize(v.Lock, gen)]

\* VariableDecrypted.Validate
Validate(v) == ValidatePath(v.Path)

\* VariableDecrypted.ValidateForLock
ValidateForLock(v) ==
    IF ValidatePath(v.Path) # ErrNone THEN ErrInvalid
    ELSE IF v.Lock.nil \/ v.Lock.TTL < 0 \/ v.Lock.LockDelay < 0 THEN ErrInvalid
    ELSE ErrNone

\* canonicalizeAndValidate that lets a Set or CAS carry lock fields
canonicalizeAndValidate_LockOnWrite(op, v, gen) ==
    CASE op = "lock-acquire" ->
            LET withLock == IF v.Lock.nil THEN [v EXCEPT !.Lock = MkLock("", 0, 0)] ELSE v
                canon == Canonicalize(withLock, gen)
            IN  [err |-> ValidateForLock(canon), v |-> canon]
      [] op \in {"set", "cas"} ->
            LET canon == Canonicalize(v, gen)
            IN  [err |-> Validate(canon), v |-> canon]
      [] op \in {"delete", "delete-cas"} ->
            IF v.nil \/ v.Path = "" THEN [err |-> errNoPath, v |-> v]
            ELSE [err |-> ErrNone, v |-> v]
      [] op = "lock-release" ->
            IF v.nil \/ v.Lock.nil \/ v.Lock.ID = ""
            THEN [err |-> errMissingLockInfo, v |-> v]
            ELSE IF ~v.Items.nil \/ Cardinality(v.Items.m) # 0
            THEN [err |-> errItemsOnRelease, v |-> v]
            ELSE [err |-> ValidatePath(v.Path), v |-> v]
      [] OTHER -> [err |-> ErrNone, v |-> v]

\* canonicalizeAndValidate that does not validate the lock block of an acquire
canonicalizeAndValidate_NoLockValidation(op, v, gen) ==
    CASE op = "lock-acquire" ->
            LET withLock == IF v.Lock.nil THEN [v EXCEPT !.Lock = MkLock("", 0, 0)] ELSE v
                canon == Canonicalize(withLock, gen)
            IN  [err |-> ValidatePath(canon.Path), v |-> canon]
      [] op \in {"set", "cas"} ->
            IF ~v.Lock.nil /\ (v.Lock.LockDelay # 0 \/ v.Lock.TTL # 0)
            THEN [err |-> errLockOnVarCreation, v |-> v]
            ELSE LET canon == Canonicalize(v, gen)
                 IN  [err |-> Validate(canon), v |-> canon]
      [] op \in {"delete", "delete-cas"} ->
            IF v.nil \/ v.Path = "" THEN [err |-> errNoPath, v |-> v]
            ELSE [err |-> ErrNone, v |-> v]
      [] op = "lock-release" ->
            IF v.nil \/ v.Lock.nil \/ v.Lock.ID = ""
            THEN [err |-> errMissingLockInfo, v |-> v]
            ELSE IF ~v.Items.nil \/ Cardinality(v.Items.m) # 0
            THEN [err |-> errItemsOnRelease, v |-> v]
            ELSE [err |-> ValidatePath(v.Path), v |-> v]
      [] OTHER -> [err |-> ErrNone, v |-> v]

\* canonicalizeAndValidate: the error and args.Var as it leaves the function
canonicalizeAndValidate(op, v, gen) ==
    CASE op = "lock-acquire" ->
            LET withLock == IF v.Lock.nil THEN [v EXCEPT !.Lock = MkLock("", 0, 0)] ELSE v
                canon == Canonicalize(withLock, gen)
            IN  [err |-> ValidateForLock(canon), v |-> canon]
      [] op \in {"set", "cas"} ->
            IF ~v.Lock.nil /\ (v.Lock.LockDelay # 0 \/ v.Lock.TTL # 0)
            THEN [err |-> errLockOnVarCreation, v |-> v]
            ELSE LET canon == Canonicalize(v, gen)
                 IN  [err |-> Validate(canon), v |-> canon]
      [] op \in {"delete", "delete-cas"} ->
            IF v.nil \/ v.Path = "" THEN [err |-> errNoPath, v |-> v]
            ELSE [err |-> ErrNone, v |-> v]
      [] op = "lock-release" ->
            IF v.nil \/ v.Lock.nil \/ v.Lock.ID = ""
            THEN [err |-> errMissingLockInfo, v |-> v]
            ELSE IF ~v.Items.nil \/ Cardinality(v.Items.m) # 0
            THEN [err |-> errItemsOnRelease, v |-> v]
            ELSE [err |-> ValidatePath(v.Path), v |-> v]
      [] OTHER -> [err |-> ErrNone, v |-> v]

\* hasOperationPermissions that asks for the write capability whatever the operation
hasOperationPermissions_WriteForAll(c, op) ==
    IF op \notin VarOps THEN ErrUnexpectedOp
    ELSE IF ~AllowVariableOperation(c, "write") THEN ErrPermissionDenied ELSE ErrNone

\* hasOperationPermissions
hasOperationPermissions(c, op) ==
    CASE op \in {"set", "cas", "lock-acquire", "lock-release"} ->
            IF ~AllowVariableOperation(c, "write") THEN ErrPermissionDenied ELSE ErrNone
      [] op \in {"delete", "delete-cas"} ->
            IF ~AllowVariableOperation(c, "destroy") THEN ErrPermissionDenied ELSE ErrNone
      [] OTHER -> ErrUnexpectedOp

\* hasReadPermission
hasReadPermission(c) == AllowVariableOperation(c, "read")

\* the VariableEncrypted Apply builds for the VarApplyStateRequest
MakeApplyVar(op, v) ==
    IF op \in {"delete", "delete-cas"}
    THEN [NilVarEnc EXCEPT !.nil = FALSE, !.Path = v.Path, !.ModifyIndex = v.ModifyIndex]
    ELSE encrypt(v)

\* -------------------------------------------------------------- state

VARIABLES
    store,     \* variables table of the state store: path -> VariableEncrypted
    index,     \* raft index of the last applied log entry
    tableIndex,\* state store: index of the last write to the variables table
    delay,     \* state store: ticks left of the lock delay started by a release
    timers,    \* lock TTL timers of the leader: path -> running timer
    expiring,  \* fired timers waiting out the lock delay before the expiry mutation
    hist,      \* observer: the last lock event of a path, the ticks since, the
               \* items of the last successful write of the path, and the index
               \* of the last change of its variable
    blocked,   \* the blocking Read that waits in blockingRPC, if any
    scan,      \* observer: the paged listing a client is in the middle of
    last,      \* the handler that ran last, with its request and its reply
    clock,     \* user cache: the time its clock shows
    users,     \* user cache: username -> entry of the user found
    userFailures, \* user cache: username -> entry of the error of a failed lookup
    cacheLock, \* user cache: the goroutine that holds the mutex, "" if none
    calls      \* the calls of GetUser in progress, one per goroutine

\* the variables of the endpoint and those of the user cache
svars == <<store, index, tableIndex, delay, timers, expiring, hist, blocked, scan, last>>

cvars == <<clock, users, userFailures, cacheLock, calls>>

vars == <<svars, cvars>>

NoTimer == [nil |-> TRUE, ID |-> "", remaining |-> 0, LockDelay |-> 0]

NoHist == [kind |-> "none", since |-> 0, d |-> 0, after |-> "none", wrote |-> NilItems,
           changed |-> 0]

NoReply == [rpc |-> "none", Op |-> "", Path |-> "", Caller |-> "", Env |-> "",
            ReqLockID |-> "", ReqLock |-> NilLock, ReqItems |-> NilItems,
            ReqIndex |-> 0, Err |-> ErrNone, Result |-> "",
            Output |-> NilVarDec, Conflict |-> NilVarDec, Meta |-> NilMeta, Index |-> 0,
            Prefix |-> "", Data |-> NilVarDec, Stubs |-> <<>>,
            Namespace |-> "", PerPage |-> 0, ReqToken |-> "", NextToken |-> "",
            MinQueryIndex |-> 0, Via |-> ""]

NoBlocked == [nil |-> TRUE, remaining |-> 0, ws |-> 0, reply |-> NoReply]

NoScan == [active |-> FALSE, Caller |-> "", Namespace |-> "", Prefix |-> "", PerPage |-> 0,
           Token |-> "", got |-> <<>>, stable |-> {}]

\* ---------------------------------------- state store (variables table)

\* VarApplyStateRequest.SuccessResponse
SuccessResponse(meta) ==
    [Result |-> "ok", Error |-> ErrNone, WrittenSVMeta |-> meta, Conflict |-> NilVarEnc]

\* VarApplyStateRequest.ConflictResponse
ConflictResponse(cv) ==
    [Result |-> "conflict", Error |-> ErrNone, WrittenSVMeta |-> NilMeta, Conflict |-> cv]

\* VarApplyStateRequest.ErrorResponse
ErrorResponse(err) ==
    [Result |-> "error", Error |-> err, WrittenSVMeta |-> NilMeta, Conflict |-> NilVarEnc]

\* the zero-value variable of a conflict on a path that holds nothing
ZeroVar(path) == [NilVarEnc EXCEPT !.nil = FALSE, !.Path = path]

\* isLocked that lets every request through that carries some lock ID
isLocked_AnyLockID(lock, ev) == ~lock.nil /\ ev.Lock.nil

\* a held lock guards the variable against every request but its holder's
isLocked(lock, ev) == ~lock.nil /\ (ev.Lock.nil \/ ev.Lock.ID # lock.ID)

\* Written that keeps the ModifyIndex the request came with
Written_RequestIndex(existing, idx, ev, lock) ==
    [nil |-> FALSE, Path |-> ev.Path,
     CreateIndex |-> IF existing.nil THEN idx ELSE existing.CreateIndex,
     ModifyIndex |-> ev.ModifyIndex, Lock |-> lock, Data |-> ev.Data, KeyID |-> ev.KeyID]

\* the record a write leaves: indexes from the log, lock as given
Written(existing, idx, ev, lock) ==
    [nil |-> FALSE, Path |-> ev.Path,
     CreateIndex |-> IF existing.nil THEN idx ELSE existing.CreateIndex,
     ModifyIndex |-> idx, Lock |-> lock, Data |-> ev.Data, KeyID |-> ev.KeyID]

\* StateStore.varSetTxn: a payload write keeps the lock the variable holds
varSetTxn(st, dl, idx, ev) ==
    LET existing == st[ev.Path]
        w == Written(existing, idx, ev, existing.Lock)
    IN  IF isLocked(existing.Lock, ev)
        THEN [store |-> st, delay |-> dl, resp |-> ConflictResponse(existing)]
        ELSE [store |-> [st EXCEPT ![ev.Path] = w], delay |-> dl,
              resp |-> SuccessResponse(MetaOf(w))]

\* StateStore.VarSet
VarSet(st, dl, idx, ev) == varSetTxn(st, dl, idx, ev)

\* StateStore.VarSetCAS
VarSetCAS(st, dl, idx, ev) ==
    LET existing == st[ev.Path]
    IN  IF ~existing.nil /\ ev.ModifyIndex # existing.ModifyIndex
        THEN [store |-> st, delay |-> dl, resp |-> ConflictResponse(existing)]
        ELSE varSetTxn(st, dl, idx, ev)

\* StateStore.svDeleteTxn
varDeleteTxn(st, dl, idx, ev) ==
    LET existing == st[ev.Path]
    IN  IF existing.nil
        THEN [store |-> st, delay |-> dl, resp |-> SuccessResponse(NilMeta)]
        ELSE IF isLocked(existing.Lock, ev)
        THEN [store |-> st, delay |-> dl, resp |-> ConflictResponse(existing)]
        ELSE [store |-> [st EXCEPT ![ev.Path] = NilVarEnc], delay |-> dl,
              resp |-> SuccessResponse(NilMeta)]

\* StateStore.VarDelete
VarDelete(st, dl, idx, ev) == varDeleteTxn(st, dl, idx, ev)

\* StateStore.VarDeleteCAS
VarDeleteCAS(st, dl, idx, ev) ==
    LET existing == st[ev.Path]
    IN  IF existing.nil /\ ev.ModifyIndex # 0
        THEN [store |-> st, delay |-> dl, resp |-> ConflictResponse(ZeroVar(ev.Path))]
        ELSE IF ~existing.nil /\ ev.ModifyIndex # existing.ModifyIndex
        THEN [store |-> st, delay |-> dl, resp |-> ConflictResponse(existing)]
        ELSE varDeleteTxn(st, dl, idx, ev)

\* StateStore.VarLockAcquire: refused while a lock is held and while the
\* lock delay of a release runs; the lock takes the fields of the request
VarLockAcquire(st, dl, idx, ev) ==
    LET existing == st[ev.Path]
        w == Written(existing, idx, ev, ev.Lock)
    IN  IF ~existing.nil /\ ~existing.Lock.nil
        THEN [store |-> st, delay |-> dl, resp |-> ConflictResponse(existing)]
        ELSE IF dl[ev.Path] > 0
        THEN [store |-> st, delay |-> dl,
              resp |-> ConflictResponse(IF existing.nil THEN ZeroVar(ev.Path) ELSE existing)]
        ELSE [store |-> [st EXCEPT ![ev.Path] = w], delay |-> dl,
              resp |-> SuccessResponse(MetaOf(w))]

\* VarLockRelease that starts no lock delay
VarLockRelease_NoDelay(st, dl, idx, ev) ==
    LET existing == st[ev.Path]
        w == [existing EXCEPT !.Lock = NilLock, !.ModifyIndex = idx]
    IN  IF existing.nil
        THEN [store |-> st, delay |-> dl, resp |-> ErrorResponse(errVarNotFound)]
        ELSE IF existing.Lock.nil \/ existing.Lock.ID # ev.Lock.ID
        THEN [store |-> st, delay |-> dl, resp |-> ConflictResponse(existing)]
        ELSE [store |-> [st EXCEPT ![ev.Path] = w], delay |-> dl,
              resp |-> SuccessResponse(MetaOf(w))]

\* VarLockRelease that stores the payload of the request
VarLockRelease_TakesData(st, dl, idx, ev) ==
    LET existing == st[ev.Path]
        w == [existing EXCEPT !.Lock = NilLock, !.ModifyIndex = idx,
                              !.Data = ev.Data, !.KeyID = ev.KeyID]
    IN  IF existing.nil
        THEN [store |-> st, delay |-> dl, resp |-> ErrorResponse(errVarNotFound)]
        ELSE IF existing.Lock.nil \/ existing.Lock.ID # ev.Lock.ID
        THEN [store |-> st, delay |-> dl, resp |-> ConflictResponse(existing)]
        ELSE [store |-> [st EXCEPT ![ev.Path] = w],
              delay |-> [dl EXCEPT ![ev.Path] = existing.Lock.LockDelay],
              resp |-> SuccessResponse(MetaOf(w))]

\* StateStore.VarLockRelease: clears the lock of its holder, keeps the
\* payload and starts the lock delay
VarLockRelease(st, dl, idx, ev) ==
    LET existing == st[ev.Path]
        w == [existing EXCEPT !.Lock = NilLock, !.ModifyIndex = idx]
    IN  IF existing.nil
        THEN [store |-> st, delay |-> dl, resp |-> ErrorResponse(errVarNotFound)]
        ELSE IF existing.Lock.nil \/ existing.Lock.ID # ev.Lock.ID
        THEN [store |-> st, delay |-> dl, resp |-> ConflictResponse(existing)]
        ELSE [store |-> [st EXCEPT ![ev.Path] = w],
              delay |-> [dl EXCEPT ![ev.Path] = existing.Lock.LockDelay],
              resp |-> SuccessResponse(MetaOf(w))]

\* nomadFSM.applyVariableOperation
applyVariableOperation(st, dl, idx, op, ev) ==
    CASE op = "set"          -> VarSet(st, dl, idx, ev)
      [] op = "cas"          -> VarSetCAS(st, dl, idx, ev)
      [] op = "delete"       -> VarDelete(st, dl, idx, ev)
      [] op = "delete-cas"   -> VarDeleteCAS(st, dl, idx, ev)
      [] op = "lock-acquire" -> VarLockAcquire(st, dl, idx, ev)
      [] op = "lock-release" -> VarLockRelease(st, dl, idx, ev)

\* ------------------------------------------------------ lock TTL timers

\* Server.CreateVariableLockTTLTimer: starts (or replaces) the timer of the path
CreateVariableLockTTLTimer(tm, ev) ==
    [tm EXCEPT ![ev.Path] = [nil |-> FALSE, ID |-> ev.Lock.ID,
                             remaining |-> ev.Lock.TTL, LockDelay |-> ev.Lock.LockDelay]]

\* Server.RemoveVariableLockTTLTimer: stops and discards the timer of the lock
RemoveVariableLockTTLTimer(tm, ev) ==
    IF ~tm[ev.Path].nil /\ tm[ev.Path].ID = ev.Lock.ID
    THEN [tm EXCEPT ![ev.Path] = NoTimer]
    ELSE tm

\* Server.RenewTTLTimer: restarts the timer of the lock at its TTL; an error
\* when no timer is registered for the lock
RenewTTLTimer(tm, ev) ==
    IF tm[ev.Path].nil \/ tm[ev.Path].ID # ev.Lock.ID
    THEN [err |-> "timer not found", timers |-> tm]
    ELSE [err |-> ErrNone,
          timers |-> [tm EXCEPT ![ev.Path].remaining = ev.Lock.TTL]]

\* ------------------------------------------------------- Apply response

\* isCallerOwner without the comparison of the lock IDs
isCallerOwner_AnyLock(req, respVarMeta) ==
    ~req.Lock.nil /\ ~respVarMeta.Lock.nil

\* isCallerOwner
isCallerOwner(req, respVarMeta) ==
    ~req.Lock.nil /\ ~respVarMeta.Lock.nil /\ req.Lock.ID = respVarMeta.Lock.ID

\* the VariablesApplyResponse fields the handler fills
MkApplyResponse(result, output, conflict) ==
    [Result |-> result, Output |-> output, Conflict |-> conflict]

\* makeVariablesApplyResponse that answers an error of the state store like a
\* success without a written variable
makeVariablesApplyResponse_SwallowsError(c, req, eResp) ==
    LET canRead == hasReadPermission(c)
        isManagement == IsManagement(c)
        meta == eResp.WrittenSVMeta
        written == [nil |-> FALSE, Path |-> meta.Path, CreateIndex |-> meta.CreateIndex,
                    ModifyIndex |-> meta.ModifyIndex,
                    Lock |-> IF isCallerOwner(req, meta) \/ isManagement
                             THEN meta.Lock ELSE NilLock,
                    Items |-> req.Items]
        cv == eResp.Conflict
        primed == [nil |-> FALSE, Path |-> cv.Path, CreateIndex |-> cv.CreateIndex,
                   ModifyIndex |-> cv.ModifyIndex, Lock |-> cv.Lock, Items |-> NilItems]
        zero == [NilVarDec EXCEPT !.nil = FALSE, !.Path = cv.Path]
        opened == decrypt(cv)
    IN  IF eResp.Result = "ok"
        THEN [err |-> ErrNone,
              out |-> MkApplyResponse("ok", IF meta.nil THEN NilVarDec ELSE written, NilVarDec)]
        ELSE IF eResp.Result = "error"
        THEN [err |-> ErrNone, out |-> MkApplyResponse("error", NilVarDec, NilVarDec)]
        ELSE IF ~canRead
        THEN [err |-> ErrNone, out |-> MkApplyResponse("redacted", NilVarDec, primed)]
        ELSE IF cv.nil \/ cv.KeyID = ""
        THEN [err |-> ErrNone, out |-> MkApplyResponse("conflict", NilVarDec, zero)]
        ELSE IF opened.err # ErrNone
        THEN [err |-> opened.err, out |-> MkApplyResponse("", NilVarDec, NilVarDec)]
        ELSE [err |-> ErrNone, out |-> MkApplyResponse("conflict", NilVarDec, opened.dv)]

\* makeVariablesApplyResponse that hands a reader the conflict undecrypted
makeVariablesApplyResponse_NoDecrypt(c, req, eResp) ==
    LET canRead == hasReadPermission(c)
        isManagement == IsManagement(c)
        meta == eResp.WrittenSVMeta
        written == [nil |-> FALSE, Path |-> meta.Path, CreateIndex |-> meta.CreateIndex,
                    ModifyIndex |-> meta.ModifyIndex,
                    Lock |-> IF isCallerOwner(req, meta) \/ isManagement
                             THEN meta.Lock ELSE NilLock,
                    Items |-> req.Items]
        cv == eResp.Conflict
        primed == [nil |-> FALSE, Path |-> cv.Path, CreateIndex |-> cv.CreateIndex,
                   ModifyIndex |-> cv.ModifyIndex, Lock |-> cv.Lock, Items |-> NilItems]
    IN  IF eResp.Result = "ok"
        THEN [err |-> ErrNone,
              out |-> MkApplyResponse("ok", IF meta.nil THEN NilVarDec ELSE written, NilVarDec)]
        ELSE IF eResp.Result = "error"
        THEN [err |-> eResp.Error, out |-> MkApplyResponse("error", NilVarDec, NilVarDec)]
        ELSE IF ~canRead
        THEN [err |-> ErrNone, out |-> MkApplyResponse("redacted", NilVarDec, primed)]
        ELSE [err |-> ErrNone, out |-> MkApplyResponse("conflict", NilVarDec, primed)]

\* makeVariablesApplyResponse that decrypts the conflict for every caller
makeVariablesApplyResponse_NoReadCheck(c, req, eResp) ==
    LET isManagement == IsManagement(c)
        meta == eResp.WrittenSVMeta
        written == [nil |-> FALSE, Path |-> meta.Path, CreateIndex |-> meta.CreateIndex,
                    ModifyIndex |-> meta.ModifyIndex,
                    Lock |-> IF isCallerOwner(req, meta) \/ isManagement
                             THEN meta.Lock ELSE NilLock,
                    Items |-> req.Items]
        cv == eResp.Conflict
        zero == [NilVarDec EXCEPT !.nil = FALSE, !.Path = cv.Path]
        opened == decrypt(cv)
    IN  IF eResp.Result = "ok"
        THEN [err |-> ErrNone,
              out |-> MkApplyResponse("ok", IF meta.nil THEN NilVarDec ELSE written, NilVarDec)]
        ELSE IF eResp.Result = "error"
        THEN [err |-> eResp.Error, out |-> MkApplyResponse("error", NilVarDec, NilVarDec)]
        ELSE IF cv.nil \/ cv.KeyID = ""
        THEN [err |-> ErrNone, out |-> MkApplyResponse("conflict", NilVarDec, zero)]
        ELSE IF opened.err # ErrNone
        THEN [err |-> opened.err, out |-> MkApplyResponse("", NilVarDec, NilVarDec)]
        ELSE [err |-> ErrNone, out |-> MkApplyResponse("conflict", NilVarDec, opened.dv)]

\* makeVariablesApplyResponse that fills the Output of a conflict, too
makeVariablesApplyResponse_OutputOnConflict(c, req, eResp) ==
    LET canRead == hasReadPermission(c)
        isManagement == IsManagement(c)
        meta == eResp.WrittenSVMeta
        written == [nil |-> FALSE, Path |-> meta.Path, CreateIndex |-> meta.CreateIndex,
                    ModifyIndex |-> meta.ModifyIndex,
                    Lock |-> IF isCallerOwner(req, meta) \/ isManagement
                             THEN meta.Lock ELSE NilLock,
                    Items |-> req.Items]
        cv == eResp.Conflict
        primed == [nil |-> FALSE, Path |-> cv.Path, CreateIndex |-> cv.CreateIndex,
                   ModifyIndex |-> cv.ModifyIndex, Lock |-> cv.Lock, Items |-> NilItems]
        zero == [NilVarDec EXCEPT !.nil = FALSE, !.Path = cv.Path]
        opened == decrypt(cv)
    IN  IF eResp.Result = "ok"
        THEN [err |-> ErrNone,
              out |-> MkApplyResponse("ok", IF meta.nil THEN NilVarDec ELSE written, NilVarDec)]
        ELSE IF eResp.Result = "error"
        THEN [err |-> eResp.Error, out |-> MkApplyResponse("error", NilVarDec, NilVarDec)]
        ELSE IF ~canRead
        THEN [err |-> ErrNone, out |-> MkApplyResponse("redacted", primed, primed)]
        ELSE IF cv.nil \/ cv.KeyID = ""
        THEN [err |-> ErrNone, out |-> MkApplyResponse("conflict", zero, zero)]
        ELSE IF opened.err # ErrNone
        THEN [err |-> opened.err, out |-> MkApplyResponse("", NilVarDec, NilVarDec)]
        ELSE [err |-> ErrNone, out |-> MkApplyResponse("conflict", primed, opened.dv)]

\* Variables.makeVariablesApplyResponse: the response and the error returned
makeVariablesApplyResponse(c, req, eResp) ==
    LET canRead == hasReadPermission(c)
        isManagement == IsManagement(c)
        meta == eResp.WrittenSVMeta
        written == [nil |-> FALSE, Path |-> meta.Path, CreateIndex |-> meta.CreateIndex,
                    ModifyIndex |-> meta.ModifyIndex,
                    Lock |-> IF isCallerOwner(req, meta) \/ isManagement
                             THEN meta.Lock ELSE NilLock,
                    Items |-> req.Items]
        cv == eResp.Conflict
        primed == [nil |-> FALSE, Path |-> cv.Path, CreateIndex |-> cv.CreateIndex,
                   ModifyIndex |-> cv.ModifyIndex, Lock |-> cv.Lock, Items |-> NilItems]
        zero == [NilVarDec EXCEPT !.nil = FALSE, !.Path = cv.Path]
        opened == decrypt(cv)
    IN  IF eResp.Result = "ok"
        THEN [err |-> ErrNone,
              out |-> MkApplyResponse("ok", IF meta.nil THEN NilVarDec ELSE written, NilVarDec)]
        ELSE IF eResp.Result = "error"
        THEN [err |-> eResp.Error, out |-> MkApplyResponse("error", NilVarDec, NilVarDec)]
        ELSE IF ~canRead
        THEN [err |-> ErrNone, out |-> MkApplyResponse("redacted", NilVarDec, primed)]
        ELSE IF cv.nil \/ cv.KeyID = ""
        THEN [err |-> ErrNone, out |-> MkApplyResponse("conflict", NilVarDec, zero)]
        ELSE IF opened.err # ErrNone
        THEN [err |-> opened.err, out |-> MkApplyResponse("", NilVarDec, NilVarDec)]
        ELSE [err |-> ErrNone, out |-> MkApplyResponse("conflict", NilVarDec, opened.dv)]

\* ------------------------------------------------------------ Apply

\* what the handler can meet outside the request: servers below the minimum
\* version, a failing encrypter, a failing raft apply
Envs == {"ok", "old-servers", "encrypt-fails", "raft-fails"}

\* the reply of an Apply that returns err before it fills the response; the
\* items of the request are kept with an error only
ApplyFailed(c, op, v, err) ==
    [NoReply EXCEPT !.rpc = "Apply", !.Op = op, !.Path = v.Path, !.Caller = c,
                    !.ReqLockID = v.Lock.ID, !.ReqLock = v.Lock,
                    !.ReqItems = IF err # ErrNone THEN v.Items ELSE NilItems,
                    !.ReqIndex = v.ModifyIndex, !.Err = err]

\* ApplyPreError without the check of the servers' versions
ApplyPreError_NoVersionCheck(c, env, op, v, gen) ==
    IF ~AuthOK(c) THEN ErrPermissionDenied
    ELSE IF v.nil THEN ErrNilVar
    ELSE IF hasOperationPermissions(c, op) # ErrNone THEN hasOperationPermissions(c, op)
    ELSE IF canonicalizeAndValidate(op, v, gen).err # ErrNone
         THEN canonicalizeAndValidate(op, v, gen).err
    ELSE IF env = "encrypt-fails" /\ op \notin {"delete", "delete-cas"} THEN ErrEncrypt
    ELSE IF env = "raft-fails" THEN ErrRaftApply
    ELSE ErrNone

\* ApplyPreError that goes on after a failure of the encrypter
ApplyPreError_NoEncryptError(c, env, op, v, gen) ==
    IF ~AuthOK(c) THEN ErrPermissionDenied
    ELSE IF v.nil THEN ErrNilVar
    ELSE IF env = "old-servers" THEN ErrVersion
    ELSE IF hasOperationPermissions(c, op) # ErrNone THEN hasOperationPermissions(c, op)
    ELSE IF canonicalizeAndValidate(op, v, gen).err # ErrNone
         THEN canonicalizeAndValidate(op, v, gen).err
    ELSE IF env = "raft-fails" THEN ErrRaftApply
    ELSE ErrNone

\* ApplyPreError that validates the request before it asks the ACL
ApplyPreError_ValidatesFirst(c, env, op, v, gen) ==
    IF ~AuthOK(c) THEN ErrPermissionDenied
    ELSE IF v.nil THEN ErrNilVar
    ELSE IF env = "old-servers" THEN ErrVersion
    ELSE IF canonicalizeAndValidate(op, v, gen).err # ErrNone
         THEN canonicalizeAndValidate(op, v, gen).err
    ELSE IF hasOperationPermissions(c, op) # ErrNone THEN hasOperationPermissions(c, op)
    ELSE IF env = "encrypt-fails" /\ op \notin {"delete", "delete-cas"} THEN ErrEncrypt
    ELSE IF env = "raft-fails" THEN ErrRaftApply
    ELSE ErrNone

\* the error that ends Apply before the write is submitted, ErrNone if none
ApplyPreError(c, env, op, v, gen) ==
    IF ~AuthOK(c) THEN ErrPermissionDenied
    ELSE IF v.nil THEN ErrNilVar
    ELSE IF env = "old-servers" THEN ErrVersion
    ELSE IF hasOperationPermissions(c, op) # ErrNone THEN hasOperationPermissions(c, op)
    ELSE IF canonicalizeAndValidate(op, v, gen).err # ErrNone
         THEN canonicalizeAndValidate(op, v, gen).err
    ELSE IF env = "encrypt-fails" /\ op \notin {"delete", "delete-cas"} THEN ErrEncrypt
    ELSE IF env = "raft-fails" THEN ErrRaftApply
    ELSE ErrNone

\* ApplyTimers that leaves the timer of a released lock running
ApplyTimers_NoRemove(tm, op, ev, eResp) ==
    IF eResp.Result = "ok" /\ op = "lock-acquire"
    THEN CreateVariableLockTTLTimer(tm, ev)
    ELSE tm

\* ApplyTimers that registers no timer for an acquired lock
ApplyTimers_NoCreate(tm, op, ev, eResp) ==
    IF eResp.Result = "ok" /\ op = "lock-release"
    THEN RemoveVariableLockTTLTimer(tm, ev)
    ELSE tm

\* ApplyTimers that does not look at the result of the write
ApplyTimers_IgnoresResult(tm, op, ev, eResp) ==
    CASE op = "lock-acquire" -> CreateVariableLockTTLTimer(tm, ev)
      [] op = "lock-release" -> RemoveVariableLockTTLTimer(tm, ev)
      [] OTHER -> tm

\* the timers after the handler's last step
ApplyTimers(tm, op, ev, eResp) ==
    IF eResp.Result = "ok"
    THEN CASE op = "lock-acquire" -> CreateVariableLockTTLTimer(tm, ev)
           [] op = "lock-release" -> RemoveVariableLockTTLTimer(tm, ev)
           [] OTHER -> tm
    ELSE tm

\* the observer after an Apply: a lock taken, or the lock released and its
\* delay, and the items submitted with a write that was applied
ApplyHist(h, op, ev, eResp, before, items) ==
    IF eResp.Result # "ok" THEN h
    ELSE CASE op = "lock-acquire" ->
                [h EXCEPT ![ev.Path] = [kind |-> "held", since |-> 0, d |-> ev.Lock.LockDelay,
                                        after |-> h[ev.Path].kind, wrote |-> items,
                                        changed |-> h[ev.Path].changed]]
           [] op = "lock-release" ->
                [h EXCEPT ![ev.Path] = [kind |-> "released", since |-> 0,
                                        d |-> before.Lock.LockDelay, after |-> "none",
                                        wrote |-> h[ev.Path].wrote,
                                        changed |-> h[ev.Path].changed]]
           [] op \in {"set", "cas"} -> [h EXCEPT ![ev.Path].wrote = items]
           [] OTHER -> [h EXCEPT ![ev.Path].wrote = NilItems]

\* the observer of changes: the variables that differ after a log entry carry
\* its index
Touched(h, st, after, idx) ==
    [p \in DOMAIN h |-> IF after[p] # st[p] THEN [h[p] EXCEPT !.changed = idx] ELSE h[p]]

\* Variables.Apply
Apply(c, env, op, v, gen) ==
    LET pre == ApplyPreError(c, env, op, v, gen)
        canon == canonicalizeAndValidate(op, v, gen).v
        ev == MakeApplyVar(op, canon)
        idx == index + 1
        applied == applyVariableOperation(store, delay, idx, op, ev)
        made == makeVariablesApplyResponse(c, canon, applied.resp)
        failed(err) == [ApplyFailed(c, op, v, err) EXCEPT !.Env = env]
    IN  IF pre # ErrNone
        THEN /\ last' = failed(pre)
             /\ UNCHANGED <<store, index, tableIndex, delay, timers, expiring, hist, blocked, scan>>
        ELSE /\ index < MaxIndex
             /\ store' = applied.store
             /\ delay' = applied.delay
             /\ index' = idx
             /\ tableIndex' = IF applied.store # store THEN idx ELSE tableIndex
             /\ timers' = IF made.err # ErrNone THEN timers
                          ELSE ApplyTimers(timers, op, ev, applied.resp)
             /\ hist' = Touched(ApplyHist(hist, op, ev, applied.resp, store[ev.Path],
                                          canon.Items), store, applied.store, idx)
             /\ scan' = [scan EXCEPT !.stable = {p \in @ : ~applied.store[p].nil}]
             /\ last' = IF made.err # ErrNone
                        THEN failed(made.err)
                        ELSE [failed(ErrNone) EXCEPT
                                 !.Result = made.out.Result,
                                 !.Output = made.out.Output,
                                 !.Conflict = made.out.Conflict,
                                 !.Index = idx]
             /\ UNCHANGED <<expiring, blocked>>

\* ------------------------------------------------------------ RenewLock

\* VariablesRenewLockRequest.Validate
RenewValidate(path, lockID) ==
    IF path = "" \/ lockID = "" THEN ErrInvalid ELSE ErrNone

\* the reply of a RenewLock that returns err
RenewFailed(c, path, lockID, err) ==
    [NoReply EXCEPT !.rpc = "RenewLock", !.Path = path, !.Caller = c,
                    !.ReqLockID = lockID, !.Err = err]

\* RenewLockError without the comparison of the lock IDs
RenewLockError_NoHolderCheck(c, path, lockID) ==
    IF ~AuthOK(c) THEN ErrPermissionDenied
    ELSE IF ~AllowVariableOperation(c, "write") THEN ErrPermissionDenied
    ELSE IF RenewValidate(path, lockID) # ErrNone THEN ErrInvalid
    ELSE IF store[path].nil THEN errVarNotFound
    ELSE IF store[path].Lock.nil THEN errLockNotFound
    ELSE IF RenewTTLTimer(timers, store[path]).err # ErrNone THEN errVarIsLocked
    ELSE ErrNone

\* RenewLockError that reports a missing timer as a missing lock
RenewLockError_TellsExpired(c, path, lockID) ==
    IF ~AuthOK(c) THEN ErrPermissionDenied
    ELSE IF ~AllowVariableOperation(c, "write") THEN ErrPermissionDenied
    ELSE IF RenewValidate(path, lockID) # ErrNone THEN ErrInvalid
    ELSE IF store[path].nil THEN errVarNotFound
    ELSE IF store[path].Lock.nil THEN errLockNotFound
    ELSE IF store[path].Lock.ID # lockID THEN errVarIsLocked
    ELSE IF RenewTTLTimer(timers, store[path]).err # ErrNone THEN errLockNotFound
    ELSE ErrNone

\* RenewLockError without the check of the write capability
RenewLockError_NoWriteCheck(c, path, lockID) ==
    IF ~AuthOK(c) THEN ErrPermissionDenied
    ELSE IF RenewValidate(path, lockID) # ErrNone THEN ErrInvalid
    ELSE IF store[path].nil THEN errVarNotFound
    ELSE IF store[path].Lock.nil THEN errLockNotFound
    ELSE IF store[path].Lock.ID # lockID THEN errVarIsLocked
    ELSE IF RenewTTLTimer(timers, store[path]).err # ErrNone THEN errVarIsLocked
    ELSE ErrNone

\* the error RenewLock returns, ErrNone when it renews
RenewLockError(c, path, lockID) ==
    IF ~AuthOK(c) THEN ErrPermissionDenied
    ELSE IF ~AllowVariableOperation(c, "write") THEN ErrPermissionDenied
    ELSE IF RenewValidate(path, lockID) # ErrNone THEN ErrInvalid
    ELSE IF store[path].nil THEN errVarNotFound
    ELSE IF store[path].Lock.nil THEN errLockNotFound
    ELSE IF store[path].Lock.ID # lockID THEN errVarIsLocked
    ELSE IF RenewTTLTimer(timers, store[path]).err # ErrNone THEN errVarIsLocked
    ELSE ErrNone

\* RenewLock that answers without renewing the timer
RenewLock_KeepsTimer(c, path, lockID) ==
    LET err == RenewLockError(c, path, lockID)
        encryptedVar == store[path]
    IN  IF err # ErrNone
        THEN /\ last' = RenewFailed(c, path, lockID, err)
             /\ UNCHANGED <<store, index, tableIndex, delay, timers, expiring, hist, blocked, scan>>
        ELSE /\ hist' = [hist EXCEPT ![path].since = 0]
             /\ last' = [RenewFailed(c, path, lockID, ErrNone) EXCEPT
                            !.Meta = MetaOf(encryptedVar),
                            !.Index = encryptedVar.ModifyIndex]
             /\ UNCHANGED <<store, index, tableIndex, delay, timers, expiring, blocked, scan>>

\* RenewLock that writes the renewal to the variable through the log
RenewLock_Persists(c, path, lockID) ==
    LET err == RenewLockError(c, path, lockID)
        encryptedVar == store[path]
    IN  IF err # ErrNone \/ index >= MaxIndex
        THEN /\ last' = RenewFailed(c, path, lockID, IF err # ErrNone THEN err ELSE ErrRaftApply)
             /\ UNCHANGED <<store, index, tableIndex, delay, timers, expiring, hist, blocked, scan>>
        ELSE /\ timers' = RenewTTLTimer(timers, encryptedVar).timers
             /\ index' = index + 1
             /\ tableIndex' = index + 1
             /\ store' = [store EXCEPT ![path].ModifyIndex = index + 1]
             /\ hist' = [hist EXCEPT ![path].since = 0]
             /\ last' = [RenewFailed(c, path, lockID, ErrNone) EXCEPT
                            !.Meta = MetaOf(store'[path]),
                            !.Index = index + 1]
             /\ UNCHANGED <<delay, expiring, blocked, scan>>

\* Variables.RenewLock
RenewLock(c, path, lockID) ==
    LET err == RenewLockError(c, path, lockID)
        encryptedVar == store[path]
    IN  IF err # ErrNone
        THEN /\ last' = RenewFailed(c, path, lockID, err)
             /\ UNCHANGED <<store, index, tableIndex, delay, timers, expiring, hist, blocked, scan>>
        ELSE /\ timers' = RenewTTLTimer(timers, encryptedVar).timers
             /\ hist' = [hist EXCEPT ![path].since = 0]
             /\ last' = [RenewFailed(c, path, lockID, ErrNone) EXCEPT
                            !.Meta = MetaOf(encryptedVar),
                            !.Index = encryptedVar.ModifyIndex]
             /\ UNCHANGED <<store, index, tableIndex, delay, expiring, blocked, scan>>

\* ------------------------------------------------------- Read and List

\* prefixes of a List: every path, or a prefix no stored path has
Prefixes == {"", "b"}

\* what can follow a prefix in a path of the model
Suffixes == {"", "a", "b", "aa", "ab"}

\* strings.HasPrefix on the paths and prefixes of the model
HasPrefix(path, prefix) == \E rest \in Suffixes : prefix \o rest = path

\* the paths of the variables table in the order its iterators walk them:
\* by namespace, then by path
PathOrder == <<"a", "ab", "aa">>

\* StateStore.GetVariable
GetVariable(st, path) == IF path \in DOMAIN st THEN st[path] ELSE NilVarEnc

\* StateStore.Variables (every namespace) and
\* StateStore.GetVariablesByNamespaceAndPrefix: the stored variables an
\* iterator yields, in its order
Iterate(st, ns, prefix) ==
    SelectSeq(PathOrder,
              LAMBDA p : /\ p \in DOMAIN st
                         /\ ~st[p].nil
                         /\ \/ ns = AllNamespacesSentinel
                            \/ NamespaceOf(p) = ns /\ HasPrefix(p, prefix))

\* Server.setReplyQueryMeta: the index of the variables table
setReplyQueryMeta(reply, tidx) == [reply EXCEPT !.Index = tidx]

\* the error Read returns, ErrNone when it answers
ReadError(c, path) ==
    IF ~AuthOK(c) THEN ErrPermissionDenied
    ELSE IF ~AllowVariableOperationAt(c, NamespaceOf(path), path, "read")
    THEN ErrPermissionDenied
    ELSE IF GetVariable(store, path).nil THEN ErrNone
    ELSE decrypt(GetVariable(store, path)).err

\* the variable Read returns for a stored one: the lock is for management only
ReadOutput(c, dv) == IF IsManagement(c) THEN dv ELSE [dv EXCEPT !.Lock = NilLock]

\* the query function of Read that leaves the index out for a variable that
\* does not exist
ReadRun_AbsentNoIndex(st, tidx, asked) ==
    LET out == GetVariable(st, asked.Path)
    IN  IF out.nil THEN asked
        ELSE [asked EXCEPT !.Data = ReadOutput(asked.Caller, decrypt(out).dv),
                           !.Index = out.ModifyIndex]

\* the query function of Read: the reply it fills in from the state store
ReadRun(st, tidx, asked) ==
    LET out == GetVariable(st, asked.Path)
    IN  IF out.nil THEN setReplyQueryMeta(asked, tidx)
        ELSE [asked EXCEPT !.Data = ReadOutput(asked.Caller, decrypt(out).dv),
                           !.Index = out.ModifyIndex]

\* blockingRPC that never waits
MustWait_Never(min, reply) == FALSE

\* blockingRPC: the query waits while a minimum index was asked for and the
\* index of the reply has not passed it
MustWait(min, reply) == min > 0 /\ reply.Index <= min

\* Variables.Read: the query runs once; it is answered at once, or it waits in
\* blockingRPC for a change of the table or for the timeout
Read(c, path, min, timeout) ==
    LET err == ReadError(c, path)
        asked == [NoReply EXCEPT !.rpc = "Read", !.Caller = c, !.Path = path,
                                 !.MinQueryIndex = min, !.Via = "run", !.Err = err]
        ran == ReadRun(store, tableIndex, asked)
    IN  /\ blocked.nil
        /\ IF err = ErrNone /\ MustWait(min, ran)
           THEN /\ blocked' = [nil |-> FALSE, remaining |-> timeout, ws |-> tableIndex,
                               reply |-> ran]
                /\ UNCHANGED last
           ELSE /\ last' = IF err # ErrNone THEN asked ELSE ran
                /\ UNCHANGED blocked
        /\ UNCHANGED <<store, index, tableIndex, delay, timers, expiring, hist, scan>>

\* The watch set of the waiting Read fires: the query runs again, and is
\* answered if its index has passed the minimum index.
ReadWake ==
    LET asked == [blocked.reply EXCEPT !.Via = "wake", !.Data = NilVarDec, !.Index = 0,
                                       !.Err = ReadError(blocked.reply.Caller,
                                                          blocked.reply.Path)]
        ran == ReadRun(store, tableIndex, asked)
    IN  /\ ~blocked.nil
        /\ blocked.ws # tableIndex
        /\ IF asked.Err = ErrNone /\ MustWait(asked.MinQueryIndex, ran)
           THEN /\ blocked' = [blocked EXCEPT !.ws = tableIndex, !.reply = ran]
                /\ UNCHANGED last
           ELSE /\ last' = IF asked.Err # ErrNone THEN asked ELSE ran
                /\ blocked' = NoBlocked
        /\ UNCHANGED <<store, index, tableIndex, delay, timers, expiring, hist, scan>>

\* The timeout of the waiting Read elapses: it is answered with what its last
\* run found.
ReadTimeout ==
    /\ ~blocked.nil
    /\ blocked.remaining = 0
    /\ last' = [blocked.reply EXCEPT !.Via = "timeout"]
    /\ blocked' = NoBlocked
    /\ UNCHANGED <<store, index, tableIndex, delay, timers, expiring, hist, scan>>

\* ListSelector without the capability check
ListSelector_PrefixOnly(c, prefix, ev) == HasPrefix(ev.Path, prefix)

\* the selector of a List: the prefix and the list capability of the caller on
\* the variable
ListSelector(c, prefix, ev) ==
    /\ HasPrefix(ev.Path, prefix)
    /\ AllowVariableOperationAt(c, NamespaceOf(ev.Path), ev.Path, "list")

\* ListStub that hands the lock to every caller
ListStub_KeepsLock(c, ev) == MetaOf(ev)

\* the stub of a listed variable: the lock is for management only
ListStub(c, ev) ==
    IF IsManagement(c) THEN MetaOf(ev) ELSE [MetaOf(ev) EXCEPT !.Lock = NilLock]

\* paginator.NamespaceIDTokenizer: the token of a variable
Token(p) == NamespaceOf(p) \o "." \o p

\* the place of a token in the order of the table; 0 for no token
TokenRank(token) ==
    IF \E i \in 1..Len(PathOrder) : Token(PathOrder[i]) = token
    THEN CHOOSE i \in 1..Len(PathOrder) : Token(PathOrder[i]) = token
    ELSE 0

\* the place of a path in the order of the table
PathRank(p) == CHOOSE i \in 1..Len(PathOrder) : PathOrder[i] = p

\* the paginator that resumes after the variable of the token
Page_SkipsToken(items, perPage, token, selected) ==
    LET eligible == SelectSeq(items, LAMBDA p : PathRank(p) > TokenRank(token) /\ p \in selected)
        full == perPage > 0 /\ Len(eligible) > perPage
    IN  [keys |-> IF full THEN SubSeq(eligible, 1, perPage) ELSE eligible,
         nextToken |-> IF full THEN Token(eligible[perPage + 1]) ELSE ""]

\* Paginator.Page: the variables from the token on that the selector accepts
\* (selected), up to the page size, and the token of the first one left out
Page(items, perPage, token, selected) ==
    LET eligible == SelectSeq(items, LAMBDA p : PathRank(p) >= TokenRank(token) /\ p \in selected)
        full == perPage > 0 /\ Len(eligible) > perPage
    IN  [keys |-> IF full THEN SubSeq(eligible, 1, perPage) ELSE eligible,
         nextToken |-> IF full THEN Token(eligible[perPage + 1]) ELSE ""]

\* the observer of a paged listing after a page: a first page starts it, a
\* page without next token ends it
ScanPage(sc, c, ns, prefix, perPage, token, page, listable) ==
    IF page.nextToken = "" THEN NoScan
    ELSE [active |-> TRUE, Caller |-> c, Namespace |-> ns, Prefix |-> prefix,
          PerPage |-> perPage, Token |-> page.nextToken,
          got |-> IF token = "" THEN page.keys ELSE sc.got \o page.keys,
          stable |-> IF token = "" THEN listable ELSE sc.stable]

\* Variables.List and, for every namespace, Variables.listAllVariables: one
\* page of the listing
List(c, ns, prefix, perPage, token) ==
    LET iter == Iterate(store, ns, prefix)
        selected == {p \in DOMAIN store : ~store[p].nil /\ ListSelector(c, prefix, store[p])}
        page == Page(iter, perPage, token, selected)
        svs == [i \in 1..Len(page.keys) |-> ListStub(c, store[page.keys[i]])]
        asked == [NoReply EXCEPT !.rpc = IF ns = AllNamespacesSentinel THEN "ListAll"
                                         ELSE "List",
                                 !.Caller = c, !.Namespace = ns, !.Prefix = prefix,
                                 !.PerPage = perPage, !.ReqToken = token]
    IN  IF ~AuthOK(c)
        THEN /\ last' = [asked EXCEPT !.Err = ErrPermissionDenied]
             /\ UNCHANGED <<store, index, tableIndex, delay, timers, expiring, hist,
                            blocked, scan>>
        ELSE /\ last' = setReplyQueryMeta([asked EXCEPT !.Stubs = svs,
                                                        !.NextToken = page.nextToken],
                                          tableIndex)
             /\ scan' = ScanPage(scan, c, ns, prefix, perPage, token, page,
                                 {iter[i] : i \in 1..Len(iter)} \cap selected)
             /\ UNCHANGED <<store, index, tableIndex, delay, timers, expiring, hist, blocked>>

\* ------------------------------------------------ clock and lock expiry

Dec(n) == IF n > 0 THEN n - 1 ELSE 0

\* One tick of the clock.  A timer that is due runs before the clock moves on.
Tick ==
    /\ \A p \in Paths : timers[p].nil \/ timers[p].remaining > 0
    /\ \A p \in Paths : expiring[p].nil \/ expiring[p].remaining > 0
    /\ timers' = [p \in Paths |-> [timers[p] EXCEPT !.remaining = Dec(@)]]
    /\ expiring' = [p \in Paths |-> [expiring[p] EXCEPT !.remaining = Dec(@)]]
    /\ delay' = [p \in Paths |-> Dec(delay[p])]
    /\ blocked.nil \/ blocked.remaining > 0
    /\ hist' = [p \in DOMAIN hist |->
                  IF hist[p].kind = "none" \/ hist[p].since >= MaxSince THEN hist[p]
                  ELSE [hist[p] EXCEPT !.since = @ + 1]]
    /\ blocked' = [blocked EXCEPT !.remaining = Dec(@)]
    /\ last' = [NoReply EXCEPT !.rpc = "Tick"]
    /\ UNCHANGED <<store, index, tableIndex, scan>>

\* The TTL timer of a lock fires: the timer leaves the registry and the lock
\* delay starts; the lock stays on the variable until the delay has run.
TimerFire(p) ==
    /\ ~timers[p].nil
    /\ timers[p].remaining = 0
    /\ expiring[p].nil
    /\ timers' = [timers EXCEPT ![p] = NoTimer]
    /\ expiring' = [expiring EXCEPT ![p] = [timers[p] EXCEPT !.remaining = timers[p].LockDelay]]
    /\ hist' = [hist EXCEPT ![p] = [kind |-> "fired", since |-> 0, d |-> timers[p].LockDelay,
                                     after |-> "none", wrote |-> hist[p].wrote,
                                     changed |-> hist[p].changed]]
    /\ last' = [NoReply EXCEPT !.rpc = "TimerFire", !.Path = p, !.ReqLockID = timers[p].ID]
    /\ UNCHANGED <<store, index, tableIndex, delay, blocked, scan>>

\* an expire-lock mutation that clears the payload with the lock
VarLockExpire_DropsData(st, idx, path, lockID) ==
    LET existing == st[path]
    IN  IF ~existing.nil /\ ~existing.Lock.nil /\ existing.Lock.ID = lockID
        THEN [st EXCEPT ![path] = [existing EXCEPT !.Lock = NilLock, !.ModifyIndex = idx,
                                                   !.Data = NoData, !.KeyID = ""]]
        ELSE st

\* the expire-lock mutation: clears the lock fields if the lock is still the one
\* whose timer fired
VarLockExpire(st, idx, path, lockID) ==
    LET existing == st[path]
    IN  IF ~existing.nil /\ ~existing.Lock.nil /\ existing.Lock.ID = lockID
        THEN [st EXCEPT ![path] = [existing EXCEPT !.Lock = NilLock, !.ModifyIndex = idx]]
        ELSE st

\* The lock delay of a fired timer has run: the expire-lock mutation is applied.
ExpireLock(p) ==
    /\ ~expiring[p].nil
    /\ expiring[p].remaining = 0
    /\ store' = VarLockExpire(store, index + 1, p, expiring[p].ID)
    /\ index' = index + 1
    /\ tableIndex' = IF store' # store THEN index + 1 ELSE tableIndex
    /\ expiring' = [expiring EXCEPT ![p] = NoTimer]
    /\ last' = [NoReply EXCEPT !.rpc = "ExpireLock", !.Path = p,
                               !.ReqLockID = expiring[p].ID, !.Index = index + 1]
    /\ hist' = Touched(hist, store, store', index + 1)
    /\ UNCHANGED <<delay, timers, blocked, scan>>

\* ------------------------------------------------------ leadership change

\* the registry of a new leader that restores no timer
restoreLockTTLTimers_None(st) == [p \in Paths |-> NoTimer]

\* the registry a new leader builds: CreateVariableLockTTLTimer for every
\* variable of the state store that holds a lock
restoreLockTTLTimers(st) ==
    [p \in Paths |->
        IF ~st[p].nil /\ ~st[p].Lock.nil
        THEN CreateVariableLockTTLTimer([q \in Paths |-> NoTimer], st[p])[p]
        ELSE NoTimer]

\* Another server becomes leader: the timers of the old leader, running or
\* waiting out a lock delay, are gone with it; the new leader commits its
\* first log entry and rebuilds the registry from the state store.
LeaderChange ==
    /\ index < MaxIndex
    /\ index' = index + 1
    /\ timers' = restoreLockTTLTimers(store)
    /\ expiring' = [p \in Paths |-> NoTimer]
    /\ hist' = [p \in Paths |->
                  IF ~store[p].nil /\ ~store[p].Lock.nil
                  THEN [hist[p] EXCEPT !.kind = "held", !.since = 0,
                                       !.d = store[p].Lock.LockDelay]
                  ELSE hist[p]]
    /\ last' = [NoReply EXCEPT !.rpc = "LeaderChange", !.Index = index + 1]
    /\ UNCHANGED <<store, tableIndex, delay, blocked, scan>>

\* ------------------------------------------------------------ requests

\* lock blocks a writer sends along as proof of ownership: none, or a lock ID
OwnerLocks == {NilLock} \cup {MkLock(id, 0, 0) : id \in LockIDs}

\* lock blocks of an acquire: none (defaults), or a TTL and a LockDelay
AcquireLocks == {NilLock, MkLock("", 1, 2)}

ReleaseLocks == {MkLock(id, 0, 0) : id \in LockIDs}

AcquireItems == {NilItems, MkItems({<<"k", "v1">>})}

\* the well-formed variables a caller submits with an operation
ReqVars(op) ==
    CASE op = "set" ->
            {MkReqVar(p, 0, l, i) : p \in Paths, l \in OwnerLocks, i \in WriteItems}
      [] op = "cas" ->
            {MkReqVar(p, n, l, i) : p \in Paths, n \in 0..MaxIndex,
                                    l \in OwnerLocks, i \in WriteItems}
      [] op = "delete" ->
            {MkReqVar(p, 0, l, NilItems) : p \in Paths, l \in OwnerLocks}
      [] op = "delete-cas" ->
            {MkReqVar(p, n, l, NilItems) : p \in Paths, n \in 0..MaxIndex, l \in OwnerLocks}
      [] op = "lock-acquire" ->
            {MkReqVar(p, 0, l, i) : p \in Paths, l \in AcquireLocks, i \in AcquireItems}
      [] op = "lock-release" ->
            {MkReqVar(p, 0, l, NilItems) : p \in Paths, l \in ReleaseLocks}

\* the well-formed variables of the callers whose replies differ from the
\* first caller's by what they are shown: one payload, one lock ID
ReqVarsFew(op) ==
    {v \in ReqVars(op) : /\ v.Items \in {NilItems, MkItems({<<"k", "v2">>})}
                         /\ v.Lock.ID \in {"", "L1"}}

\* one well-formed variable per operation, for the calls that end early
Probe(op) ==
    MkReqVar("a", 0, IF op = "lock-release" THEN MkLock("L1", 0, 0) ELSE NilLock, NilItems)

\* malformed variables: no path, lock fields on a write, a malformed TTL, a
\* release without lock ID or with items
BadVars(op) ==
    {[Probe(op) EXCEPT !.Path = ""]} \cup
    CASE op \in {"set", "cas"} ->
            {[Probe(op) EXCEPT !.Lock = MkLock("", 1, 0)],
             [Probe(op) EXCEPT !.Lock = MkLock("", 0, 2)]}
      [] op = "lock-acquire" ->
            {[Probe(op) EXCEPT !.Lock = MkLock("", -1, 0)]}
      [] op = "lock-release" ->
            {[Probe(op) EXCEPT !.Lock = NilLock],
             [Probe(op) EXCEPT !.Lock = MkLock("", 0, 0)],
             [Probe(op) EXCEPT !.Items = MkItems({})],
             [Probe(op) EXCEPT !.Items = MkItems({<<"k", "v1">>})]}
      [] OTHER -> {NilVarDec}

\* the calls of Apply: <<caller, environment, operation, variable>>
ApplyInputs ==
    UNION {{<<"rw", "ok", op, v>> : v \in ReqVars(op)} : op \in VarOps}
    \cup UNION {{<<c, "ok", op, v>> : c \in {"mgmt", "blind"}, v \in ReqVarsFew(op)} : op \in VarOps}
    \cup UNION {{<<"rw", "ok", op, v>> : v \in BadVars(op)} : op \in VarOps}
    \cup {<<"ro", "ok", op, [Probe(op) EXCEPT !.Path = ""]>> : op \in {"set", "delete"}}
    \cup {<<c, "ok", "set", NilVarDec>> : c \in {"rw", "ro"}}
    \cup {<<c, "ok", op, Probe(op)>> : c \in {"ro", "writer", "destroyer"}, op \in VarOps}
    \cup {<<"anon", "ok", op, Probe(op)>> : op \in {"set", "delete", "lock-acquire"}}
    \cup {<<"rw", env, op, Probe(op)>> : env \in Envs, op \in VarOps}
    \cup {<<c, "old-servers", op, Probe(op)>> :
             c \in {"ro", "anon"}, op \in {"set", "lock-acquire", "lock-release"}}
    \cup {<<"rw", "old-servers", "lock-acquire", NilVarDec>>}

\* the calls of RenewLock: <<caller, path, lock ID>>
RenewInputs ==
    {<<"rw", p, id>> : p \in ReqPaths, id \in LockIDs \cup {""}}
    \cup {<<c, p, id>> : c \in {"mgmt", "ro", "destroyer", "anon"}, p \in Paths, id \in LockIDs}

\* the calls of Read: <<caller, path>>, none of them with a minimum index
ReadInputs ==
    {<<c, p>> : c \in {"mgmt", "ro", "blind", "anon"}, p \in Paths} \cup {<<"ro", "">>}

\* the calls of List: <<caller, namespace, prefix>>, none of them paged
ListInputs ==
    {<<c, "default", pre>> : c \in {"mgmt", "ro"}, pre \in Prefixes}
    \cup {<<c, "default", "">> : c \in {"blind", "anon"}}
    \cup {<<c, AllNamespacesSentinel, "">> : c \in {"mgmt", "ro", "blind"}}

\* lock IDs the store can generate: none that a lock or a timer still carries
FreshIDs ==
    LockIDs \ ({store[p].Lock.ID : p \in Paths} \cup {timers[p].ID : p \in Paths}
                 \cup {expiring[p].ID : p \in Paths})

GenIDs(op) == IF op = "lock-acquire" THEN FreshIDs ELSE {""}

\* ------------------------------------------ user cache (helper/users)

\* usernames asked for, and the goroutines that call GetUser
Usernames == {"alice", "bob"}

Goroutines == {"g1", "g2"}

\* cacheTTL and failureTTL, in ticks of the clock
cacheTTL == 2
failureTTL == 1

\* lookupUserFunc: what a lookup of the OS can answer, a user or an error
LookupResults ==
    {[usr |-> u, err |-> ""] : u \in {"uid1", "uid2"}}
    \cup {[usr |-> "", err |-> "unknown user"]}

\* entry[T]: a value and the time it was cached; nil marks a key the map
\* does not hold
NoEntry == [nil |-> TRUE, First |-> "", Second |-> 0]

MkEntry(first, second) == [nil |-> FALSE, First |-> first, Second |-> second]

\* entry.expired
expired(e, now, ttl) == now > e.Second + ttl

\* a goroutine that is not in GetUser
NoCall == [pc |-> "idle", username |-> "", now |-> 0, looked |-> FALSE,
           usr |-> "", err |-> ""]

\* newCache
CacheInit ==
    /\ clock = 0
    /\ users = [u \in Usernames |-> NoEntry]
    /\ userFailures = [u \in Usernames |-> NoEntry]
    /\ cacheLock = ""
    /\ calls = [g \in Goroutines |-> NoCall]

\* sync.Mutex.Lock that never waits
MutexFree_Always(holder) == TRUE

\* sync.Mutex.Lock goes on when no goroutine holds the mutex
MutexFree(holder) == holder = ""

\* A goroutine calls GetUser and waits for the mutex.
GetUserCall(g, username) ==
    /\ calls[g].pc = "idle"
    /\ calls' = [calls EXCEPT ![g] = [NoCall EXCEPT !.pc = "locking", !.username = username]]
    /\ UNCHANGED <<clock, users, userFailures, cacheLock>>
    /\ UNCHANGED svars

\* GetUser up to the lookup: the goroutine takes the mutex, reads the clock
\* and answers from the cache of users or from the cache of failures; if
\* neither holds a live entry it drops an expired failure and goes on to the
\* lookup with the mutex held.  A return releases the mutex.
GetUserCached(g) ==
    LET username == calls[g].username
        now == clock
        usr == users[username]
        failure == userFailures[username]
        answered(u, e) == [calls EXCEPT ![g] = [calls[g] EXCEPT !.pc = "returned", !.now = now,
                                                               !.usr = u, !.err = e]]
    IN  /\ calls[g].pc = "locking"
        /\ MutexFree(cacheLock)
        /\ IF ~usr.nil /\ ~expired(usr, now, cacheTTL)
           THEN /\ calls' = answered(usr.First, "")
                /\ UNCHANGED <<users, userFailures, cacheLock>>
           ELSE IF ~failure.nil /\ ~expired(failure, now, failureTTL)
           THEN /\ calls' = answered("", failure.First)
                /\ UNCHANGED <<users, userFailures, cacheLock>>
           ELSE /\ userFailures' = [userFailures EXCEPT ![username] = NoEntry]
                /\ cacheLock' = g
                /\ calls' = [calls EXCEPT ![g] = [calls[g] EXCEPT !.pc = "lookup", !.now = now]]
                /\ UNCHANGED users
        /\ UNCHANGED clock
        /\ UNCHANGED svars

\* GetUser from the lookup on: the answer of the OS is cached with the time
\* read at the start of the call, as a user or as a failure, and returned;
\* the return releases the mutex.
GetUserLookup(g, found) ==
    LET username == calls[g].username
        now == calls[g].now
    IN  /\ calls[g].pc = "lookup"
        /\ IF found.err # ""
           THEN /\ userFailures' = [userFailures EXCEPT ![username] = MkEntry(found.err, now)]
                /\ UNCHANGED users
           ELSE /\ users' = [users EXCEPT ![username] = MkEntry(found.usr, now)]
                /\ UNCHANGED userFailures
        /\ cacheLock' = ""
        /\ calls' = [calls EXCEPT ![g] = [calls[g] EXCEPT !.pc = "returned", !.looked = TRUE,
                                                          !.usr = found.usr, !.err = found.err]]
        /\ UNCHANGED clock
        /\ UNCHANGED svars

\* The caller has the answer of its GetUser.
GetUserReturn(g) ==
    /\ calls[g].pc = "returned"
    /\ calls' = [calls EXCEPT ![g] = NoCall]
    /\ UNCHANGED <<clock, users, userFailures, cacheLock>>
    /\ UNCHANGED svars

\* The clock of the cache moves on, also while a lookup runs.
ClockTick ==
    /\ clock < MaxClock
    /\ clock' = clock + 1
    /\ UNCHANGED <<users, userFailures, cacheLock, calls>>
    /\ UNCHANGED svars

\* The reply of the handler that ran last has been delivered.
Respond ==
    /\ last.rpc # "none"
    /\ last' = NoReply
    /\ UNCHANGED <<store, index, tableIndex, delay, timers, expiring, hist, blocked, scan>>
    /\ UNCHANGED cvars

\* no reply is waiting to be delivered
Idle == last.rpc = "none"

\* a step of the endpoint: no reply is waiting, and the user cache is not
\* touched
Quiet == Idle /\ UNCHANGED cvars

\* ------------------------------------------------------- specification

Init ==
    /\ store = [p \in Paths |-> NilVarEnc]
    /\ index = 0
    /\ tableIndex = 0
    /\ delay = [p \in Paths |-> 0]
    /\ timers = [p \in Paths |-> NoTimer]
    /\ expiring = [p \in Paths |-> NoTimer]
    /\ hist = [p \in Paths |-> NoHist]
    /\ blocked = NoBlocked
    /\ scan = NoScan
    /\ last = NoReply
    /\ CacheInit

Next ==
    \/ Quiet /\ \E in \in ApplyInputs : \E gen \in GenIDs(in[3]) :
                  Apply(in[1], in[2], in[3], in[4], gen)
    \/ Quiet /\ \E in \in RenewInputs : RenewLock(in[1], in[2], in[3])
    \/ Quiet /\ \E in \in ReadInputs : Read(in[1], in[2], 0, 0)
    \/ Quiet /\ \E in \in ListInputs : List(in[1], in[2], in[3], 0, "")
    \/ Quiet /\ Tick
    \/ Quiet /\ \E p \in Paths : TimerFire(p)
    \/ Quiet /\ \E p \in Paths : ExpireLock(p)
    \/ Quiet /\ LeaderChange
    \/ Respond

Spec == Init /\ [][Next]_vars

\* The clock moves on and due timers run however many requests arrive (strong
\* fairness: a pending reply disables them only for a step); a reply is
\* always delivered.
LiveSpec ==
    /\ Spec
    /\ SF_vars(Quiet /\ Tick)
    /\ \A p \in Paths : SF_vars(Quiet /\ TimerFire(p)) /\ SF_vars(Quiet /\ ExpireLock(p))
    /\ WF_vars(Respond)

\* ------------------------------------- specification of the queries

\* the variables of the table the queries are checked on: two of one
\* namespace, one of another whose path sorts between theirs
QPaths == {"a", "ab", "aa"}

\* the writes between queries: <<caller, environment, operation, variable>>
QApplyInputs ==
    {<<"mgmt", "ok", "set", MkReqVar(p, 0, NilLock, MkItems({<<"k", "v1">>}))>> : p \in QPaths}
    \cup {<<"mgmt", "ok", "delete", MkReqVar(p, 0, NilLock, NilItems)>> : p \in QPaths}

\* the calls of Read: <<caller, path, minimum index, timeout in ticks>>
QReadInputs ==
    {<<"mgmt", p, m, t>> : p \in {"a", "ab"}, m \in {1, 2}, t \in {1, 2}}
    \cup {<<c, p, 0, 0>> : c \in {"mgmt", "scoped"}, p \in QPaths}

\* the first calls of a listing: <<caller, namespace, prefix, page size>>
QListInputs ==
    {<<c, ns, pre, n>> : c \in {"mgmt", "scoped"}, ns \in {"default", AllNamespacesSentinel},
                         pre \in {"", "ab"}, n \in {0, 1}}
    \cup {<<"mgmt", AllNamespacesSentinel, "", 2>>, <<"scoped", "prod", "a", 0>>}

\* A client asks for the next page of its listing with the token it was given.
ListNext == List(scan.Caller, scan.Namespace, scan.Prefix, scan.PerPage, scan.Token)

QInit ==
    /\ store = [p \in QPaths |-> NilVarEnc]
    /\ index = 0
    /\ tableIndex = 0
    /\ delay = [p \in Paths |-> 0]
    /\ timers = [p \in Paths |-> NoTimer]
    /\ expiring = [p \in Paths |-> NoTimer]
    /\ hist = [p \in QPaths |-> NoHist]
    /\ blocked = NoBlocked
    /\ scan = NoScan
    /\ last = NoReply
    /\ CacheInit

\* One listing and one waiting Read at a time; writes run between their steps.
QNext ==
    \/ Quiet /\ \E in \in QApplyInputs : Apply(in[1], in[2], in[3], in[4], "")
    \/ Quiet /\ ~scan.active /\ \E in \in QReadInputs : Read(in[1], in[2], in[3], in[4])
    \/ Quiet /\ blocked.nil /\ ~scan.active
            /\ \E in \in QListInputs : List(in[1], in[2], in[3], in[4], "")
    \/ Quiet /\ scan.active /\ ListNext
    \/ Quiet /\ ReadWake
    \/ Quiet /\ ReadTimeout
    \/ Quiet /\ Tick
    \/ Respond

QuerySpec == QInit /\ [][QNext]_vars

\* The clock moves on, a watch that fired and a timeout that elapsed are
\* served, and a reply is always delivered.
QueryLiveSpec ==
    /\ QuerySpec
    /\ SF_vars(Quiet /\ Tick)
    /\ SF_vars(Quiet /\ ReadTimeout)
    /\ SF_vars(Quiet /\ ReadWake)
    /\ WF_vars(Respond)

\* --------------------------------- specification of the user cache

\* Goroutines call GetUser for any username at any time; the OS answers a
\* lookup as it likes; the clock moves between any two steps.
CacheNext ==
    \/ \E g \in Goroutines, username \in Usernames : GetUserCall(g, username)
    \/ \E g \in Goroutines : GetUserCached(g)
    \/ \E g \in Goroutines, found \in LookupResults : GetUserLookup(g, found)
    \/ \E g \in Goroutines : GetUserReturn(g)
    \/ ClockTick

CacheSpec == Init /\ [][CacheNext]_vars

\* a due timer never finds an earlier expiry of its path still waiting
TypeOK ==
    /\ index \in Nat
    /\ \A p \in Paths : ~timers[p].nil /\ timers[p].remaining = 0 => expiring[p].nil

\* ---------------------------------------------------------------- claims

\* the step is an Apply of op on path p whose write went through the state store
Submitted(op, p) ==
    /\ last'.rpc = "Apply" /\ last'.Op = op /\ last'.Path = p
    /\ last'.Err = ErrNone /\ last'.Result # ""

Refused == last'.Result \in {"conflict", "redacted"} /\ last'.Output.nil

C2_LockExclusivity ==
    [][\A p \in Paths :
         /\ (last'.rpc = "Apply" /\ last'.Op = "lock-acquire" /\ last'.Path = p
               /\ ~store[p].Lock.nil)
              => /\ store' = store /\ timers' = timers
                 /\ last'.Result # "ok" /\ last'.Output.nil
                 /\ Submitted("lock-acquire", p) => Refused
         /\ (~store[p].Lock.nil /\ store'[p].Lock # store[p].Lock)
              => \/ /\ last'.rpc = "Apply" /\ last'.Op = "lock-release"
                    /\ last'.Result = "ok" /\ last'.ReqLockID = store[p].Lock.ID
                 \/ /\ last'.rpc = "ExpireLock" /\ last'.ReqLockID = store[p].Lock.ID
                    /\ hist[p].kind = "fired" /\ hist[p].since >= hist[p].d]_vars

\* an acquire was refused on a path whose lock and timer are still in place
C2_Witness ==
    /\ last.rpc = "Apply" /\ last.Op = "lock-acquire" /\ last.Result = "conflict"
    /\ ~store[last.Path].Lock.nil
    /\ ~timers[last.Path].nil /\ timers[last.Path].ID = store[last.Path].Lock.ID
    /\ last.Conflict.Lock.ID = store[last.Path].Lock.ID

\* C3: while a variable holds a lock, a Set, CAS, Delete or DeleteCAS whose
\* request carries no lock ID or another lock ID is not applied and leaves
\* the variable (payload, lock, ModifyIndex) unchanged.
C3_LockedWrites ==
    [][\A p \in Paths :
         (/\ last'.rpc = "Apply" /\ last'.Path = p
          /\ last'.Op \in {"set", "cas", "delete", "delete-cas"}
          /\ ~store[p].Lock.nil
          /\ last'.ReqLockID # store[p].Lock.ID)
            => /\ store' = store
               /\ last'.Result # "ok" /\ last'.Output.nil]_vars

\* a Set that carried another lock ID was refused on a locked variable
C3_Witness ==
    /\ last.rpc = "Apply" /\ last.Op = "set" /\ last.Result = "conflict"
    /\ ~store[last.Path].Lock.nil
    /\ last.ReqLockID \in LockIDs
    /\ last.ReqLockID # store[last.Path].Lock.ID

\* C4: once the TTL timer of a lock has fired, a LockAcquire on the path that
\* reaches the state store before the lock delay has run is refused and
\* applies nothing, and one that arrives after the delay has run succeeds.
C4_DelayAfterExpiry ==
    [][\A p \in Paths :
         (Submitted("lock-acquire", p) /\ hist[p].kind = "fired")
            => /\ hist[p].since < hist[p].d => Refused /\ store' = store
               /\ hist[p].since > hist[p].d
                    => last'.Result = "ok" /\ ~store'[p].Lock.nil]_vars

\* an acquire was refused one tick into a lock delay of two that a fired timer
\* started
C4_Witness ==
    /\ last.rpc = "Apply" /\ last.Op = "lock-acquire" /\ last.Result = "conflict"
    /\ hist[last.Path].kind = "fired"
    /\ hist[last.Path].since = 1 /\ hist[last.Path].d = 2
    /\ ~expiring[last.Path].nil

\* C5: after a successful LockRelease of a lock with LockDelay d, a
\* LockAcquire on the path that reaches the state store before d has run
\* since the release is refused and applies nothing; from d on it succeeds.
C5_DelayAfterRelease ==
    [][\A p \in Paths :
         (Submitted("lock-acquire", p) /\ hist[p].kind = "released")
            => /\ hist[p].since < hist[p].d => Refused /\ store' = store
               /\ hist[p].since >= hist[p].d
                    => last'.Result = "ok" /\ ~store'[p].Lock.nil]_vars

\* an acquire succeeded on a path whose previous lock was released
C5_Witness ==
    /\ last.rpc = "Apply" /\ last.Op = "lock-acquire" /\ last.Result = "ok"
    /\ hist[last.Path].kind = "held" /\ hist[last.Path].after = "released"
    /\ ~store[last.Path].Lock.nil

\* C6: a held lock that is neither renewed nor released is eventually cleared
\* from its variable; its timer fires when TTL has passed since the last
\* acquire or renew, and the expiry mutation removes the lock fields of the
\* path and nothing else of the variable.
C6_AutoExpiry ==
    /\ [][\A p \in Paths :
            /\ (last'.rpc = "TimerFire" /\ last'.Path = p)
                 => ~store[p].Lock.nil /\ hist[p].since = store[p].Lock.TTL
            /\ (last'.rpc = "ExpireLock" /\ last'.Path = p
                  /\ last'.ReqLockID = store[p].Lock.ID)
                 => store'[p] = [store[p] EXCEPT !.Lock = NilLock, !.ModifyIndex = index']]_vars
    /\ \A p \in Paths : \A id \in LockIDs :
          (store[p].Lock.ID = id)
             ~> \/ store[p].Lock.ID # id
                \/ last.rpc = "RenewLock" /\ last.Path = p /\ last.Err = ErrNone

\* the expiry mutation has cleared the lock of a variable that still exists
C6_Witness ==
    /\ last.rpc = "ExpireLock"
    /\ ~store[last.Path].nil /\ store[last.Path].Lock.nil
    /\ store[last.Path].ModifyIndex = last.Index
    /\ hist[last.Path].kind = "fired"

\* C7: RenewLock by a caller allowed to write, with the stored Lock.ID and
\* while the lock's timer is registered, succeeds and sets the expiry to TTL
\* after the renewal; a timer fires only when a full TTL has passed since the
\* last acquire or renewal, so a lock renewed before each expiry never expires.
C7_RenewExtends ==
    [][\A p \in Paths :
         /\ (/\ last'.rpc = "RenewLock" /\ last'.Path = p
             /\ AllowVariableOperation(last'.Caller, "write")
             /\ ~store[p].Lock.nil /\ last'.ReqLockID = store[p].Lock.ID
             /\ ~timers[p].nil /\ timers[p].ID = store[p].Lock.ID)
              => /\ last'.Err = ErrNone
                 /\ timers'[p] = [timers[p] EXCEPT !.remaining = store[p].Lock.TTL]
                 /\ hist'[p].since = 0
         /\ (last'.rpc = "TimerFire" /\ last'.Path = p)
              => hist[p].kind = "held" /\ hist[p].since >= store[p].Lock.TTL]_vars

\* a renewal succeeded and the timer runs a full TTL again
C7_Witness ==
    /\ last.rpc = "RenewLock" /\ last.Err = ErrNone
    /\ last.ReqLockID = store[last.Path].Lock.ID
    /\ timers[last.Path].remaining = store[last.Path].Lock.TTL
    /\ store[last.Path].Lock.TTL = DefaultLockTTL

\* C8: RenewLock with a lock ID different from the stored Lock.ID fails and
\* leaves the timers, the pending expiries and the variable as they were.
C8_WrongIDRenew ==
    [][\A p \in Paths :
         (/\ last'.rpc = "RenewLock" /\ last'.Path = p
          /\ ~store[p].Lock.nil /\ last'.ReqLockID # store[p].Lock.ID)
            => /\ last'.Err # ErrNone
               /\ timers' = timers /\ expiring' = expiring /\ store' = store]_vars

\* a renewal with another lock ID failed while the lock's timer had run down
\* part of its TTL
C8_Witness ==
    /\ last.rpc = "RenewLock" /\ last.Err = errVarIsLocked
    /\ last.ReqLockID \in LockIDs
    /\ ~store[last.Path].Lock.nil /\ last.ReqLockID # store[last.Path].Lock.ID
    /\ ~timers[last.Path].nil
    /\ timers[last.Path].remaining < store[last.Path].Lock.TTL

\* C9: once the timer of a held lock is no longer registered, RenewLock with
\* the stored lock ID fails, changes nothing, and returns the error a renewal
\* with any other lock ID receives in the same state.
C9_ExpiredRenew ==
    [][\A p \in Paths :
         (/\ last'.rpc = "RenewLock" /\ last'.Path = p
          /\ AllowVariableOperation(last'.Caller, "write")
          /\ ~store[p].Lock.nil /\ last'.ReqLockID = store[p].Lock.ID
          /\ timers[p].nil)
            => /\ last'.Err # ErrNone
               /\ \A wrong \in LockIDs \ {store[p].Lock.ID} :
                     last'.Err = RenewLockError(last'.Caller, p, wrong)
               /\ timers' = timers /\ expiring' = expiring /\ store' = store]_vars

\* the holder's renewal failed after the timer of its lock had fired
C9_Witness ==
    /\ last.rpc = "RenewLock" /\ last.Err = errVarIsLocked
    /\ ~store[last.Path].Lock.nil /\ last.ReqLockID = store[last.Path].Lock.ID
    /\ timers[last.Path].nil /\ ~expiring[last.Path].nil
    /\ hist[last.Path].kind = "fired"

\* item maps a variable can hold
AllItems == WriteItems \cup AcquireItems \cup {MkItems({})}

\* the variable a conflict on path p reports
Conflicting(p) == IF store[p].nil THEN ZeroVar(p) ELSE store[p]

\* C10: a conflict response to a caller without read capability on the path
\* is flagged redacted, has no Output, carries the stored metadata and no
\* Items, and is the same response whatever payload is stored.
C10_Redaction ==
    [][\A p \in Paths :
         (/\ last'.rpc = "Apply" /\ last'.Path = p /\ last'.Err = ErrNone
          /\ last'.Result \notin {"ok", ""}
          /\ ~hasReadPermission(last'.Caller))
            => /\ last'.Result = "redacted"
               /\ last'.Output.nil
               /\ last'.Conflict.Items = NilItems
               /\ MetaOf(last'.Conflict) = MetaOf(Conflicting(p))
               /\ \A i \in AllItems :
                     LET other == [Conflicting(p) EXCEPT
                                      !.Data = EncrypterEncrypt(Marshal(i)).Data,
                                      !.KeyID = ActiveKeyID]
                         made == makeVariablesApplyResponse(
                                     last'.Caller, Probe(last'.Op), ConflictResponse(other))
                     IN  /\ made.err = ErrNone
                         /\ made.out.Result = last'.Result
                         /\ made.out.Output = last'.Output
                         /\ made.out.Conflict = last'.Conflict]_vars

\* a caller without read capability received a redacted conflict on a variable
\* that holds a payload
C10_Witness ==
    /\ last.rpc = "Apply" /\ last.Caller = "blind" /\ last.Result = "redacted"
    /\ last.Op = "cas"
    /\ ~last.Conflict.nil /\ last.Conflict.ModifyIndex = store[last.Path].ModifyIndex
    /\ store[last.Path].Data.ct.kind = "obj" /\ store[last.Path].Data.ct.obj # {}

\* C11: a conflict response to a caller with read capability on the path
\* carries, as the conflicting value, the metadata stored for the path and
\* the items of the last successful write to it; on a path that holds
\* nothing it carries the path alone.
C11_ConflictValue ==
    [][\A p \in Paths :
         (/\ last'.rpc = "Apply" /\ last'.Path = p /\ last'.Err = ErrNone
          /\ last'.Result \notin {"ok", ""}
          /\ hasReadPermission(last'.Caller))
            => /\ last'.Result = "conflict"
               /\ last'.Output.nil
               /\ store' = store
               /\ IF store[p].nil
                  THEN last'.Conflict = [NilVarDec EXCEPT !.nil = FALSE, !.Path = p]
                  ELSE /\ MetaOf(last'.Conflict) = MetaOf(store[p])
                       /\ ~last'.Conflict.Items.nil
                       /\ last'.Conflict.Items.m = hist[p].wrote.m]_vars

\* a reader's CAS conflicted with a variable whose payload was written by an
\* earlier CAS or Set over a first payload, and it received the later payload
C11_Witness ==
    /\ last.rpc = "Apply" /\ last.Op = "cas" /\ last.Result = "conflict"
    /\ last.Caller = "rw"
    /\ last.Conflict.Items = MkItems({<<"k", "v2">>})
    /\ last.Conflict.CreateIndex < last.Conflict.ModifyIndex
    /\ last.Conflict.ModifyIndex = store[last.Path].ModifyIndex

\* the capability an operation of Apply requires on the path
Required(op) == IF op \in {"delete", "delete-cas"} THEN "destroy" ELSE "write"

\* C12: an Apply by a caller that lacks the capability of its operation
\* (write for Set, CAS, LockAcquire and LockRelease, destroy for Delete and
\* DeleteCAS) returns an error and submits nothing: store, index, lock delay,
\* timers and pending expiries are unchanged; the error is PermissionDenied
\* whenever the request carries a variable and the servers pass the version
\* check that precedes the ACL check.
C12_ApplyAuthorization ==
    [][(/\ last'.rpc = "Apply" /\ last'.Op \in VarOps
        /\ ~AllowVariableOperation(last'.Caller, Required(last'.Op)))
          => /\ last'.Err # ErrNone
             /\ last'.Result = "" /\ last'.Output.nil /\ last'.Conflict.nil
             /\ UNCHANGED <<store, index, tableIndex, delay, timers, expiring>>
             /\ last'.Err \in {ErrPermissionDenied, ErrNilVar, ErrVersion}
             /\ last'.Err = ErrNilVar => last'.Path = ""
             /\ (last'.Err = ErrVersion) => AuthOK(last'.Caller)]_vars

\* a caller with write but without destroy capability was denied the Delete
\* of a variable that exists
C12_Witness ==
    /\ last.rpc = "Apply" /\ last.Op = "delete" /\ last.Caller = "writer"
    /\ last.Err = ErrPermissionDenied
    /\ last.Path \in Paths /\ ~store[last.Path].nil

\* C13: an Apply that ends in a conflict applies nothing: the stored
\* variables with their locks and ModifyIndex, the lock delay and the timers
\* are unchanged, and the conflict carries the metadata stored for the path,
\* whose ModifyIndex is the path's current one (the zero value with the path
\* when the path holds nothing).
C13_ConflictAppliesNothing ==
    [][\A p \in Paths :
         (/\ last'.rpc = "Apply" /\ last'.Path = p /\ last'.Err = ErrNone
          /\ last'.Result \notin {"ok", ""})
            => /\ last'.Result \in {"conflict", "redacted"}
               /\ UNCHANGED <<store, delay, timers, expiring>>
               /\ last'.Output.nil
               /\ MetaOf(last'.Conflict) = MetaOf(Conflicting(p))
               /\ last'.Conflict.ModifyIndex = store'[p].ModifyIndex]_vars

\* the third write of the scenario: a CAS with expected index 1 conflicted
\* with a variable written at index 2, and the conflict says 2
C13_Witness ==
    /\ last.rpc = "Apply" /\ last.Op = "cas" /\ last.Result = "conflict"
    /\ last.ReqIndex = 1
    /\ last.Conflict.ModifyIndex = 2 /\ last.Conflict.CreateIndex = 1
    /\ store[last.Path].ModifyIndex = 2
    /\ last.Index = 3

\* C14: every step that changes a variable and leaves it alive leaves its
\* ModifyIndex strictly greater than before; a successful Set, CAS,
\* LockAcquire or LockRelease and a lock expiry that clears the lock leave
\* the ModifyIndex of the path at the index of their log entry, above the
\* old one; the ModifyIndex of a live variable never decreases.
C14_ModifyIndexGrows ==
    [][\A p \in Paths :
         /\ (store'[p] # store[p] /\ ~store'[p].nil)
              => store'[p].ModifyIndex > store[p].ModifyIndex
         /\ (~store[p].nil /\ ~store'[p].nil)
              => store'[p].ModifyIndex >= store[p].ModifyIndex
         /\ (/\ last'.rpc = "Apply" /\ last'.Path = p /\ last'.Result = "ok"
             /\ last'.Op \in {"set", "cas", "lock-acquire", "lock-release"})
              => /\ store'[p].ModifyIndex > store[p].ModifyIndex
                 /\ store'[p].ModifyIndex = last'.Index
                 /\ last'.Output.ModifyIndex = last'.Index
         /\ (/\ last'.rpc = "ExpireLock" /\ last'.Path = p
             /\ ~store[p].Lock.nil /\ store'[p].Lock.nil)
              => store'[p].ModifyIndex > store[p].ModifyIndex]_vars

\* a release was applied to a variable that two earlier writes had touched
C14_Witness ==
    /\ last.rpc = "Apply" /\ last.Op = "lock-release" /\ last.Result = "ok"
    /\ last.Output.CreateIndex = 1
    /\ last.Output.ModifyIndex = 3
    /\ store[last.Path].ModifyIndex = 3

\* C15: the Output of a successful write is the metadata the write left
\* plus the items the caller submitted; its lock block is the written lock
\* if the request carries that lock's ID (an acquire carries the ID it was
\* given) or the caller is management, and is removed otherwise, whatever
\* lock the written metadata holds.
C15_SuccessOutput ==
    [][\A p \in Paths :
         /\ (/\ last'.rpc = "Apply" /\ last'.Path = p /\ last'.Result = "ok"
             /\ last'.Op \in {"set", "cas", "lock-acquire", "lock-release"})
              => /\ ~last'.Output.nil /\ last'.Conflict.nil
                 /\ last'.Output.Path = p
                 /\ last'.Output.CreateIndex = store'[p].CreateIndex
                 /\ last'.Output.ModifyIndex = store'[p].ModifyIndex
                 /\ last'.Output.Items = IF last'.Op = "lock-release" THEN NilItems
                                         ELSE hist'[p].wrote
                 /\ last'.Output.Lock =
                       IF \/ last'.Op = "lock-acquire"
                          \/ /\ ~store'[p].Lock.nil /\ last'.ReqLockID = store'[p].Lock.ID
                          \/ IsManagement(last'.Caller)
                       THEN store'[p].Lock ELSE NilLock
         /\ \A c \in Callers, l \in OwnerLocks, i \in WriteItems :
               LET req == MkReqVar(p, 0, l, i)
                   made == makeVariablesApplyResponse(c, req, SuccessResponse(MetaOf(store[p])))
               IN  ~store[p].nil
                     => /\ made.err = ErrNone /\ made.out.Result = "ok"
                        /\ MetaOf([made.out.Output EXCEPT !.Lock = store[p].Lock])
                              = MetaOf(store[p])
                        /\ made.out.Output.Items = i
                        /\ made.out.Output.Lock =
                              IF \/ ~store[p].Lock.nil /\ ~l.nil /\ l.ID = store[p].Lock.ID
                                 \/ IsManagement(c)
                              THEN store[p].Lock ELSE NilLock]_vars

\* the holder of a lock wrote the locked variable and was shown the lock; the
\* caller is not management
C15_Witness ==
    /\ last.rpc = "Apply" /\ last.Op = "set" /\ last.Result = "ok"
    /\ last.Caller = "blind"
    /\ ~last.Output.Lock.nil /\ last.Output.Lock.ID = last.ReqLockID
    /\ last.Output.Lock = store[last.Path].Lock
    /\ last.Output.Items = MkItems({<<"k", "v2">>})

\* item maps of the round trip: none, the empty map, one and two entries
RoundTripItems ==
    {NilItems, MkItems({}), MkItems({<<"k", "v1">>}), MkItems({<<"k", "v2">>, <<"j", "v1">>})}

C17_TimersFollowCommit ==
    [][\A p \in Paths :
         (last'.rpc = "Apply" /\ last'.Path = p)
            => /\ timers' # timers
                    => /\ last'.Result = "ok" /\ last'.Err = ErrNone
                       /\ last'.Op \in {"lock-acquire", "lock-release"}
                       /\ store' # store
               /\ (last'.Result = "ok" /\ last'.Op = "lock-acquire")
                    => /\ ~store'[p].Lock.nil
                       /\ timers'[p] = [nil |-> FALSE, ID |-> store'[p].Lock.ID,
                                        remaining |-> store'[p].Lock.TTL,
                                        LockDelay |-> store'[p].Lock.LockDelay]
               /\ (last'.Result = "ok" /\ last'.Op = "lock-release")
                    => store'[p].Lock.nil /\ timers'[p].nil
               /\ (last'.Result # "ok" \/ last'.Err # ErrNone) => timers' = timers]_vars

\* an acquire conflicted with the lock delay of a release and no timer was
\* registered for it
C17_Witness ==
    /\ last.rpc = "Apply" /\ last.Op = "lock-acquire" /\ last.Result = "conflict"
    /\ store[last.Path].Lock.nil
    /\ delay[last.Path] > 0
    /\ timers[last.Path].nil

\* C18 as stated: every step that clears the lock of a variable leaves no
\* timer registered for that lock, and a Delete or DeleteCAS of a locked
\* variable by its holder (the request carries the stored Lock.ID, and the
\* current index for DeleteCAS) is such a step: it is applied, and the timer
\* of the lock is gone afterwards.
C18_ClearedLockHasNoTimer ==
    [][\A p \in Paths :
         /\ (~store[p].Lock.nil /\ store'[p].Lock # store[p].Lock)
              => (timers'[p].nil \/ timers'[p].ID # store[p].Lock.ID)
         /\ (/\ last'.rpc = "Apply" /\ last'.Path = p /\ last'.Err = ErrNone
             /\ last'.Op \in {"delete", "delete-cas"}
             /\ ~store[p].Lock.nil /\ last'.ReqLockID = store[p].Lock.ID
             /\ last'.Op = "delete-cas" => last'.ReqIndex = store[p].ModifyIndex)
              => /\ last'.Result = "ok"
                 /\ store'[p].nil
                 /\ timers'[p].nil]_vars

\* C19: while some server is below the minimum version, every LockAcquire
\* and LockRelease (like every other Apply) returns an error and submits
\* nothing; the error is the version error for every authenticated request
\* that carries a variable, whatever the caller's capabilities; when all
\* servers meet the version no Apply returns it.
C19_VersionGate ==
    [][(last'.rpc = "Apply" /\ last'.Op \in VarOps)
          => /\ last'.Env = "old-servers"
                  => /\ last'.Err \in {ErrVersion, ErrPermissionDenied, ErrNilVar}
                     /\ last'.Result = "" /\ last'.Output.nil /\ last'.Conflict.nil
                     /\ UNCHANGED <<store, index, tableIndex, delay, timers, expiring>>
                     /\ last'.Err = ErrPermissionDenied => ~AuthOK(last'.Caller)
                     /\ last'.Err = ErrNilVar => last'.Path = ""
             /\ last'.Env # "old-servers" => last'.Err # ErrVersion]_vars

\* a LockAcquire by a caller with every capability was turned away with the
\* version error on a path that could have been locked
C19_Witness ==
    /\ last.rpc = "Apply" /\ last.Op = "lock-acquire" /\ last.Env = "old-servers"
    /\ last.Caller = "rw" /\ last.Path \in Paths
    /\ last.Err = ErrVersion
    /\ store[last.Path].Lock.nil /\ delay[last.Path] = 0 /\ timers[last.Path].nil

\* C20: Read, List and ListAll hand the Lock block of a variable to a
\* management caller and to nobody else: the variable a Read returns and
\* every stub of a list carry the stored lock for management and no lock
\* for every other caller.
C20_ReadListLock ==
    [][/\ \A p \in Paths :
            (last'.rpc = "Read" /\ last'.Path = p /\ last'.Err = ErrNone /\ ~store[p].nil)
              => /\ ~last'.Data.nil
                 /\ last'.Data.Lock = IF IsManagement(last'.Caller)
                                      THEN store[p].Lock ELSE NilLock
       /\ (last'.rpc \in {"List", "ListAll"} /\ last'.Err = ErrNone)
              => \A i \in DOMAIN last'.Stubs :
                    /\ last'.Stubs[i].Path \in Paths
                    /\ last'.Stubs[i].Lock =
                          IF IsManagement(last'.Caller)
                          THEN store[last'.Stubs[i].Path].Lock ELSE NilLock]_vars

\* a caller with read and list capability listed a locked variable and the
\* stub shows no lock
C20_Witness ==
    /\ last.rpc = "List" /\ last.Caller = "ro" /\ last.Err = ErrNone
    /\ Len(last.Stubs) = 1
    /\ last.Stubs[1].Lock.nil
    /\ ~store[last.Stubs[1].Path].Lock.nil
    /\ last.Stubs[1].ModifyIndex = store[last.Stubs[1].Path].ModifyIndex

\* the request of the Apply that just ran, as the state store received it
SubmittedVar ==
    [NilVarEnc EXCEPT !.nil = FALSE, !.Path = last'.Path,
                      !.ModifyIndex = last'.ReqIndex, !.Lock = last'.ReqLock]

\* the reply of the Apply that just ran holds nothing but the error
NothingPopulated ==
    /\ last'.Result = "" /\ last'.Output.nil /\ last'.Conflict.nil
    /\ last'.Meta.nil /\ last'.Index = 0

\* C27: when the state machine answers a submitted write with a terminal
\* error (not a conflict), Apply returns that error, its reply holds no
\* Result, Output, Conflict or Index, the timers and the pending expiries are
\* as before, and nothing was written; the response built for an error result
\* carries no Output and no Conflict whoever the caller is.
C27_TerminalError ==
    [][/\ (/\ last'.rpc = "Apply" /\ last'.Path \in Paths /\ index' # index
           /\ applyVariableOperation(store, delay, index', last'.Op, SubmittedVar).resp.Result
                 = "error")
            => /\ last'.Err # ErrNone
               /\ last'.Err = applyVariableOperation(
                                  store, delay, index', last'.Op, SubmittedVar).resp.Error
               /\ NothingPopulated
               /\ UNCHANGED <<store, tableIndex, delay, timers, expiring>>
       /\ \A c \in Callers, op \in VarOps :
             LET made == makeVariablesApplyResponse(c, Probe(op), ErrorResponse(errVarNotFound))
             IN  /\ made.err = errVarNotFound
                 /\ made.out.Output.nil /\ made.out.Conflict.nil]_vars

\* a release of a lock was submitted for a path that holds no variable: the
\* log entry was applied, the caller got the state store's error and no index
C27_Witness ==
    /\ last.rpc = "Apply" /\ last.Op = "lock-release" /\ last.Err = errVarNotFound
    /\ last.Caller = "rw"
    /\ store[last.Path].nil
    /\ last.Index = 0 /\ index > 0
    /\ last.Result = "" /\ last.Output.nil /\ last.Conflict.nil

\* the caller may run the operation and the servers pass the version check
Admitted ==
    /\ AuthOK(last'.Caller)
    /\ last'.Env # "old-servers"
    /\ AllowVariableOperation(last'.Caller, Required(last'.Op))

\* C28: a Set or CAS whose request carries a lock block with a nonzero TTL or
\* a nonzero LockDelay is rejected with the lock-on-creation error (status
\* 400) and writes nothing, and a lock appears on a variable only through a
\* successful LockAcquire on its path.
C28_NoLockOnWrite ==
    [][/\ (/\ last'.rpc = "Apply" /\ last'.Op \in {"set", "cas"} /\ Admitted
           /\ ~last'.ReqLock.nil
           /\ (last'.ReqLock.TTL # 0 \/ last'.ReqLock.LockDelay # 0))
            => /\ last'.Err = errLockOnVarCreation
               /\ NothingPopulated
               /\ UNCHANGED <<store, index, tableIndex, delay, timers, expiring>>
       /\ \A p \in Paths :
             (~store'[p].Lock.nil /\ store'[p].Lock # store[p].Lock)
                => /\ last'.rpc = "Apply" /\ last'.Op = "lock-acquire"
                   /\ last'.Path = p /\ last'.Result = "ok"
                   /\ store[p].Lock.nil]_vars

\* a CAS that carried a LockDelay was rejected on a variable that exists and
\* holds no lock
C28_Witness ==
    /\ last.rpc = "Apply" /\ last.Op = "cas" /\ last.Err = errLockOnVarCreation
    /\ last.ReqLock.LockDelay = 2 /\ last.ReqLock.TTL = 0
    /\ last.Path \in Paths /\ ~store[last.Path].nil /\ store[last.Path].Lock.nil

\* C29 as stated: a LockRelease whose lock block is missing or whose Lock.ID
\* is empty is rejected, one whose Items holds entries is rejected, and one
\* with a Lock.ID, a valid path and Items without entries (absent or empty)
\* passes validation.
C29_ReleaseValidation ==
    [][(last'.rpc = "Apply" /\ last'.Op = "lock-release" /\ Admitted /\ last'.Path # "")
          => /\ (last'.ReqLock.nil \/ last'.ReqLock.ID = "")
                   => last'.Err = errMissingLockInfo
             /\ (~last'.ReqLock.nil /\ last'.ReqLock.ID # "" /\ last'.ReqItems.m # {})
                   => last'.Err = errItemsOnRelease
             /\ (~last'.ReqLock.nil /\ last'.ReqLock.ID # "" /\ last'.ReqItems.m = {})
                   => last'.Err \notin {errMissingLockInfo, errItemsOnRelease, ErrInvalid}]_vars

\* errors of canonicalizeAndValidate
ValidationErrors ==
    {ErrInvalid, errMissingLockInfo, errLockOnVarCreation, errItemsOnRelease, errNoPath}

\* C30: an Apply that fails in validation or in encryption submits nothing:
\* store, raft index, table index, lock delay, timers and pending expiries
\* are as before and the reply holds the error alone; a Delete or DeleteCAS
\* without a Path fails in validation, and every write that is to be
\* encrypted fails when the encrypter fails.
C30_NoSubmitOnEarlyFailure ==
    [][last'.rpc = "Apply"
         => /\ last'.Err \in ValidationErrors \cup {ErrEncrypt}
                 => /\ UNCHANGED <<store, index, tableIndex, delay, timers, expiring>>
                    /\ NothingPopulated
            /\ (/\ last'.Op \in {"delete", "delete-cas"} /\ Admitted
                /\ last'.Path = "" /\ last'.Err # ErrNilVar)
                 => last'.Err = errNoPath
            /\ (/\ last'.Op \in {"set", "cas", "lock-acquire", "lock-release"} /\ Admitted
                /\ last'.Env = "encrypt-fails" /\ last'.Path \in Paths
                /\ canonicalizeAndValidate(
                       last'.Op, MkReqVar(last'.Path, last'.ReqIndex, last'.ReqLock,
                                          last'.ReqItems), "L1").err = ErrNone)
                 => last'.Err = ErrEncrypt]_vars

\* the encrypter failed on the payload of an acquire for a path that could
\* have been locked, and nothing was registered
C30_Witness ==
    /\ last.rpc = "Apply" /\ last.Op = "lock-acquire" /\ last.Err = ErrEncrypt
    /\ last.Env = "encrypt-fails"
    /\ store[last.Path].Lock.nil /\ delay[last.Path] = 0
    /\ timers[last.Path].nil /\ index > 0

\* the step is a RenewLock on path p by a caller allowed to write who names
\* the lock the variable holds
HolderRenews(p) ==
    /\ last'.rpc = "RenewLock" /\ last'.Path = p
    /\ AllowVariableOperation(last'.Caller, "write")
    /\ ~store[p].Lock.nil /\ last'.ReqLockID = store[p].Lock.ID

C26_TimersAfterFailover ==
    /\ [][last'.rpc = "LeaderChange"
            => /\ store' = store
               /\ \A p \in Paths :
                     IF ~store[p].nil /\ ~store[p].Lock.nil
                     THEN timers'[p] = [nil |-> FALSE, ID |-> store[p].Lock.ID,
                                        remaining |-> store[p].Lock.TTL,
                                        LockDelay |-> store[p].Lock.LockDelay]
                     ELSE timers'[p].nil]_vars
    /\ \A p \in Paths : \A id \in LockIDs :
          (last.rpc = "LeaderChange" /\ store[p].Lock.ID = id)
             ~> \/ store[p].Lock.ID # id
                \/ last.rpc = "RenewLock" /\ last.Path = p /\ last.Err = ErrNone

\* the leadership changed while a variable held a lock that was acquired at
\* least two log entries before; the new leader runs a timer for the lock
C26_Witness ==
    /\ last.rpc = "LeaderChange"
    /\ \E p \in Paths :
          /\ ~store[p].Lock.nil
          /\ timers[p].ID = store[p].Lock.ID
          /\ timers[p].remaining = store[p].Lock.TTL
          /\ expiring[p].nil
          /\ hist[p].kind = "held" /\ hist[p].after = "none"
          /\ last.Index > store[p].ModifyIndex + 1

\* ------------------------------------------------ queries (QuerySpec)

\* the greatest of a non-empty set of numbers
MaxOf(S) == CHOOSE n \in S : \A m \in S : m <= n

\* the index of the last log entry that changed a variable of the table
LastTableChange == MaxOf({hist[p].changed : p \in DOMAIN hist})

\* the reply r of a Read reports what the state store holds for its path
ReportsStored(r) ==
    IF r.Path \in DOMAIN store /\ ~store[r.Path].nil
    THEN /\ ~r.Data.nil
         /\ r.Data.Path = r.Path
         /\ r.Index = store[r.Path].ModifyIndex
    ELSE /\ r.Data.nil
         /\ r.Index = LastTableChange

\* C21: a Read that is answered without error after a run of its query reports
\* the ModifyIndex of the variable and the variable when it exists, and the
\* index of the last change of the variables table and no Data when it does
\* not; the same holds for the result a waiting Read keeps from its last run,
\* which is what it answers when its timeout elapses.
C21_ReadIndex ==
    [][/\ (last.rpc = "none" /\ last'.rpc = "Read" /\ last'.Err = ErrNone
            /\ last'.Via \in {"run", "wake"})
          => ReportsStored(last')
       /\ (~blocked'.nil /\ blocked'.reply # blocked.reply)
          => ReportsStored(blocked'.reply)
       /\ (last.rpc = "none" /\ last'.rpc = "Read" /\ last'.Via = "timeout")
          => last' = [blocked.reply EXCEPT !.Via = "timeout"]]_vars

\* a Read of a variable that was deleted is answered with no Data and the
\* index of the deletion, which is the ModifyIndex of no stored variable
C21_Witness ==
    /\ last.rpc = "Read" /\ last.Err = ErrNone /\ last.Via = "run"
    /\ last.Data.nil
    /\ last.Index > 0
    /\ last.Index = hist[last.Path].changed
    /\ \E q \in DOMAIN store : ~store[q].nil /\ store[q].ModifyIndex < last.Index

\* the caller may list the variable of path p: its policy grants the list
\* capability on the variable's namespace and path
MayList(c, p) == AllowVariableOperationAt(c, NamespaceOf(p), p, "list")

\* the table without the variables the caller may not list
WithoutUnlistable(c, st) == [p \in DOMAIN st |-> IF MayList(c, p) THEN st[p] ELSE NilVarEnc]

\* the page the call of reply r gets from the table st
PageOf(r, st) ==
    LET iter == Iterate(st, r.Namespace, r.Prefix)
        selected == {p \in DOMAIN st : ~st[p].nil /\ ListSelector(r.Caller, r.Prefix, st[p])}
    IN  Page(iter, r.PerPage, r.ReqToken, selected)

\* C22: every variable of a page of List or ListAll is stored, lies in the
\* requested namespace, has the requested prefix and is one the caller holds
\* the list capability on; and the page and its next token are the ones the
\* call would get from the table without the variables the caller may not
\* list, so nothing in the reply tells that one was left out.
C22_ListFiltered ==
    [][(last.rpc = "none" /\ last'.rpc \in {"List", "ListAll"} /\ last'.Err = ErrNone)
          => /\ \A i \in 1..Len(last'.Stubs) :
                  LET p == last'.Stubs[i].Path
                  IN  /\ p \in DOMAIN store /\ ~store[p].nil
                      /\ HasPrefix(p, last'.Prefix)
                      /\ MayList(last'.Caller, p)
                      /\ last'.rpc = "List" => NamespaceOf(p) = last'.Namespace
             /\ LET shown == PageOf(last', WithoutUnlistable(last'.Caller, store))
                IN  /\ Len(last'.Stubs) = Len(shown.keys)
                    /\ \A i \in 1..Len(shown.keys) : last'.Stubs[i].Path = shown.keys[i]
                    /\ last'.NextToken = shown.nextToken]_vars

\* a caller that may not list "ab" lists every namespace page by page: the
\* page holds "a", the next token names "aa", and "ab", stored between the
\* two, is passed over
C22_Witness ==
    /\ last.rpc = "ListAll" /\ last.Err = ErrNone /\ last.Caller = "scoped"
    /\ ~store["ab"].nil /\ HasPrefix("ab", last.Prefix) /\ ~MayList("scoped", "ab")
    /\ Len(last.Stubs) = 1 /\ last.Stubs[1].Path = "a"
    /\ last.NextToken = Token("aa")

\* the namespaces and the paths of the table, each in ascending order
NsAscending == <<"default", "prod">>

LexAscending == <<"a", "aa", "ab">>

Pos(seq, x) == CHOOSE i \in 1..Len(seq) : seq[i] = x

\* the variable of path p comes before the one of path q: by namespace, then
\* by path
Before(p, q) ==
    \/ Pos(NsAscending, NamespaceOf(p)) < Pos(NsAscending, NamespaceOf(q))
    \/ /\ NamespaceOf(p) = NamespaceOf(q)
       /\ Pos(LexAscending, p) < Pos(LexAscending, q)

\* the variable a token names
TokenPath(t) == CHOOSE p \in QPaths : Token(p) = t

\* the variables the call of reply r may be shown from the table
Listable(r) ==
    {p \in DOMAIN store : /\ ~store[p].nil
                          /\ HasPrefix(p, r.Prefix)
                          /\ MayList(r.Caller, p)
                          /\ r.rpc = "List" => NamespaceOf(p) = r.Namespace}

\* the paths of the stubs of a reply
PathsOf(r) == [i \in 1..Len(r.Stubs) |-> r.Stubs[i].Path]

Times(seq, x) == Cardinality({i \in 1..Len(seq) : seq[i] = x})

\* C23: a page lists its variables in ascending order of namespace, then path,
\* and its next token names a variable after all of them.  A page asked for
\* with a token starts at the variable the token names if that is still
\* listable, holds nothing before it, and so nothing an earlier page of the
\* listing held.  When the last page of a listing arrives, every listable
\* variable that was stored from the first page on has been returned exactly
\* once, whatever was written or deleted between the pages.
C23_Pagination ==
    [][(last.rpc = "none" /\ last'.rpc \in {"List", "ListAll"} /\ last'.Err = ErrNone)
          => LET page == PathsOf(last')
                 n == Len(page)
                 first == last'.ReqToken = ""
                 all == IF first THEN page ELSE scan.got \o page
                 stable == IF first THEN Listable(last') ELSE scan.stable
             IN  /\ \A i \in 1..n : \A j \in 1..n : i < j => Before(page[i], page[j])
                 /\ last'.NextToken # ""
                      => /\ n = last'.PerPage
                         /\ \A i \in 1..n : Before(page[i], TokenPath(last'.NextToken))
                         /\ TokenPath(last'.NextToken) \in Listable(last')
                 /\ ~first
                      => /\ \A i \in 1..n : ~Before(page[i], TokenPath(last'.ReqToken))
                         /\ TokenPath(last'.ReqToken) \in Listable(last')
                               => n > 0 /\ page[1] = TokenPath(last'.ReqToken)
                         /\ \A i \in 1..Len(scan.got) : \A j \in 1..n :
                               Before(scan.got[i], page[j])
                 /\ first /\ scan'.active => scan'.stable = Listable(last')
                 /\ \A p \in DOMAIN store : Times(all, p) <= 1
                 /\ last'.NextToken = "" => \A p \in stable : Times(all, p) = 1]_vars

\* the second page of a listing of three has arrived; the variable of the
\* first page was deleted after it was returned, the variable of the page to
\* come has been stored throughout
C23_Witness ==
    /\ last.rpc = "ListAll" /\ last.Err = ErrNone
    /\ last.ReqToken # "" /\ last.NextToken # ""
    /\ scan.active /\ Len(scan.got) = 2
    /\ store[scan.got[1]].nil
    /\ TokenPath(last.NextToken) \in scan.stable

\* the step answers a Read that asked for a minimum index, without error
AnswersBlockingRead ==
    /\ last.rpc = "none" /\ last'.rpc = "Read"
    /\ last'.Err = ErrNone /\ last'.MinQueryIndex > 0

\* C24 as stated: a Read with a minimum index is answered before its timeout
\* only if its variable was changed after the minimum index, and a waiting
\* Read is answered eventually.
C24_AsStated ==
    /\ [][AnswersBlockingRead /\ last'.Via # "timeout"
             => hist[last'.Path].changed > last'.MinQueryIndex]_vars
    /\ (~blocked.nil ~> blocked.nil)

\* C24: a Read with a minimum index is answered by a run of its query only
\* with an index above the minimum index, the index being the ModifyIndex of
\* its variable or, when the variable does not exist, the index of the last
\* change of the table; otherwise it waits, and it is answered without such an
\* index only when its timeout has elapsed.  A waiting Read is answered
\* eventually.
C24_BlockingRead ==
    /\ [][/\ AnswersBlockingRead
              => \/ /\ last'.Via \in {"run", "wake"}
                    /\ ReportsStored(last')
                    /\ last'.Index > last'.MinQueryIndex
                 \/ /\ last'.Via = "timeout"
                    /\ ~blocked.nil /\ blocked.remaining = 0
                    /\ last'.Index <= last'.MinQueryIndex
          /\ ~blocked'.nil
              => /\ blocked'.reply.MinQueryIndex > 0
                 /\ blocked'.reply.Index <= blocked'.reply.MinQueryIndex
                 /\ (~blocked.nil /\ blocked'.ws = blocked.ws
                       => blocked'.reply = blocked.reply)]_vars
    /\ (~blocked.nil ~> blocked.nil)

\* a Read of a variable that never existed waited for an index above 1 and
\* is answered, without Data, after a write to another variable
C24_Witness ==
    /\ last.rpc = "Read" /\ last.Err = ErrNone /\ last.Via = "wake"
    /\ last.Data.nil
    /\ hist[last.Path].changed = 0
    /\ last.Index > last.MinQueryIndex

\* ------------------------------------------- frame of the lock operations

\* C31: when the timer of a lock fires nothing is written, and the expire-lock
\* mutation that follows the lock delay leaves every stored variable stored,
\* with the path, the CreateIndex and the encrypted payload it had; the
\* variable whose lock expired holds no lock afterwards.
C31_ExpiryKeepsPayload ==
    [][/\ last'.rpc = "TimerFire" /\ last.rpc = "none" => store' = store
       /\ (last'.rpc = "ExpireLock" /\ last.rpc = "none")
          => /\ \A p \in Paths :
                  /\ store[p].nil <=> store'[p].nil
                  /\ store'[p].Path = store[p].Path
                  /\ store'[p].CreateIndex = store[p].CreateIndex
                  /\ store'[p].Data = store[p].Data
                  /\ store'[p].KeyID = store[p].KeyID
                  /\ decrypt(store'[p]).dv.Items = decrypt(store[p]).dv.Items
             /\ LET p == last'.Path
                IN  (~store[p].nil /\ store[p].Lock.ID = last'.ReqLockID)
                       => store'[p].Lock = NilLock]_vars

\* the lock of a variable with items has expired: the variable is stored
\* without lock, modified at the index of the expiry, and decrypts to the
\* items written with the acquire
C31_Witness ==
    /\ last.rpc = "ExpireLock"
    /\ ~store[last.Path].nil /\ store[last.Path].Lock.nil
    /\ store[last.Path].ModifyIndex = last.Index
    /\ decrypt(store[last.Path]).dv.Items = MkItems({<<"k", "v1">>})

\* C32: the variable Apply hands to the state store for a LockRelease is the
\* request encrypted, its payload the encryption of no items; a LockRelease
\* that succeeds leaves the variable stored with the encrypted payload and
\* the key it had, so it decrypts to the items stored before the release.
C32_ReleaseKeepsPayload ==
    [][\A p \in Paths :
         (Submitted("lock-release", p) /\ last'.Result = "ok")
            => /\ MakeApplyVar("lock-release", MkReqVar(p, 0, last'.ReqLock, NilItems)).Data
                    = EncrypterEncrypt(Marshal(NilItems)).Data
               /\ ~store[p].nil /\ ~store'[p].nil
               /\ store'[p].Data = store[p].Data
               /\ store'[p].KeyID = store[p].KeyID
               /\ decrypt(store'[p]).err = ErrNone
               /\ decrypt(store'[p]).dv.Items = decrypt(store[p]).dv.Items
               /\ store'[p].Lock.nil]_vars

\* the holder released the lock of a variable that was written with items:
\* the variable is stored without lock and decrypts to those items, not to
\* the empty items of the release
C32_Witness ==
    /\ last.rpc = "Apply" /\ last.Op = "lock-release" /\ last.Result = "ok"
    /\ ~store[last.Path].nil /\ store[last.Path].Lock.nil
    /\ store[last.Path].ModifyIndex = last.Index
    /\ decrypt(store[last.Path]).dv.Items = MkItems({<<"k", "v2">>})
    /\ store[last.Path].Data # EncrypterEncrypt(Marshal(NilItems)).Data

\* ------------------------------------------------- outcomes of Apply

\* the reply r of an Apply is a success: no error, no Conflict
IsSuccess(r) == r.Err = ErrNone /\ r.Result = "ok" /\ r.Conflict.nil

\* the reply is a conflict: no error, the Conflict and no Output
IsConflict(r) ==
    /\ r.Err = ErrNone /\ r.Result \in {"conflict", "redacted"}
    /\ ~r.Conflict.nil /\ r.Output.nil

\* the reply is a terminal failure: the error and nothing else
IsFailure(r) == r.Err # ErrNone /\ r.Result = "" /\ r.Output.nil /\ r.Conflict.nil

\* results of the state store the response is built from: a write with and
\* without written metadata, an error, and conflicts with a stored variable,
\* with the zero value and with a variable sealed under a key that is gone
SampleResults ==
    LET sv == [encrypt(MkReqVar("a", 2, MkLock("L1", 2, 1), MkItems({<<"k", "v1">>})))
                  EXCEPT !.CreateIndex = 1]
    IN  {SuccessResponse(MetaOf(sv)), SuccessResponse(NilMeta),
         ErrorResponse(errVarNotFound),
         ConflictResponse(sv), ConflictResponse(ZeroVar("a")),
         ConflictResponse([sv EXCEPT !.KeyID = "key0"])}

\* C33: the reply of every Apply is a success (no error, no Conflict), a
\* conflict (no error, result conflict or redacted, the Conflict and no
\* Output) or a terminal failure (the error and nothing else), and exactly
\* one of them; no reply holds both an Output and a Conflict; a write the
\* state store refuses as a conflict is answered without error.  The response
\* built from a conflict comes with an error only when the conflicting
\* variable cannot be decrypted, and then there is no response.
C33_ThreeOutcomes ==
    [][/\ (last'.rpc = "Apply" /\ last.rpc = "none")
          => /\ IsSuccess(last') \/ IsConflict(last') \/ IsFailure(last')
             /\ ~(IsSuccess(last') /\ IsConflict(last'))
             /\ ~(last'.Err # ErrNone /\ (IsSuccess(last') \/ IsConflict(last')))
             /\ ~(~last'.Output.nil /\ ~last'.Conflict.nil)
             /\ (/\ last'.Path \in Paths /\ index' # index
                 /\ applyVariableOperation(store, delay, index', last'.Op,
                                           SubmittedVar).resp.Result = "conflict")
                  => IsConflict(last')
       /\ \A c \in {"mgmt", "rw", "blind"}, op \in {"set", "lock-release"},
             eResp \in SampleResults :
             LET made == makeVariablesApplyResponse(c, Probe(op), eResp)
             IN  /\ ~(~made.out.Output.nil /\ ~made.out.Conflict.nil)
                 /\ eResp.Result = "ok" => made.err = ErrNone /\ made.out.Conflict.nil
                 /\ eResp.Result = "error" => made.err = eResp.Error
                 /\ eResp.Result = "conflict"
                      => IF made.err = ErrNone
                         THEN /\ ~made.out.Conflict.nil /\ made.out.Output.nil
                              /\ made.out.Result \in {"conflict", "redacted"}
                         ELSE /\ made.err = decrypt(eResp.Conflict).err
                              /\ hasReadPermission(c)
                              /\ made.out.Conflict.nil /\ made.out.Output.nil]_vars

\* a LockAcquire on a variable that holds a lock was refused: the reply
\* carries no error and no Output, and the Conflict names the lock held
C33_Witness ==
    /\ last.rpc = "Apply" /\ last.Op = "lock-acquire" /\ last.Caller = "rw"
    /\ last.Err = ErrNone /\ last.Result = "conflict"
    /\ last.Output.nil /\ ~last.Conflict.nil
    /\ ~store[last.Path].Lock.nil
    /\ last.Conflict.ModifyIndex = store[last.Path].ModifyIndex

\* the variables a caller can send with an operation to learn how validation
\* would answer: a well-formed one and the malformed ones
Probes(op) == {v \in BadVars(op) \cup {Probe(op)} : ~v.nil}

\* C34: Apply asks the ACL before it validates.  A caller that lacks the
\* capability of its operation and sends a variable is never answered with a
\* validation error: where the servers pass the version check that precedes
\* the ACL check it gets PermissionDenied, and its answer is the one it would
\* get for every other variable, well-formed or malformed; nothing is
\* submitted.
C34_AuthBeforeValidation ==
    [][(/\ last'.rpc = "Apply" /\ last'.Op \in VarOps /\ last'.Err # ErrNilVar
        /\ ~(AuthOK(last'.Caller) /\ AllowVariableOperation(last'.Caller, Required(last'.Op))))
          => /\ last'.Err \notin ValidationErrors
             /\ last'.Err \in {ErrPermissionDenied, ErrVersion}
             /\ (last'.Env # "old-servers" \/ ~AuthOK(last'.Caller))
                   => last'.Err = ErrPermissionDenied
             /\ \A v \in Probes(last'.Op) :
                   ApplyPreError(last'.Caller, last'.Env, last'.Op, v, "L1") = last'.Err
             /\ \E v \in Probes(last'.Op) :
                   canonicalizeAndValidate(last'.Op, v, "L1").err \in ValidationErrors
             /\ NothingPopulated
             /\ UNCHANGED <<store, index, tableIndex, delay, timers, expiring>>]_vars

\* a caller with read capability only sent a Set without a path, which
\* validation rejects, and was denied
C34_Witness ==
    /\ last.rpc = "Apply" /\ last.Op = "set" /\ last.Caller = "ro"
    /\ last.Path = "" /\ last.Err = ErrPermissionDenied
    /\ canonicalizeAndValidate("set", MkReqVar("", last.ReqIndex, last.ReqLock, last.ReqItems),
                               "L1").err = ErrInvalid

\* lock blocks with a malformed TTL or LockDelay
MalformedLocks == {MkLock("", -1, 0), MkLock("", 0, -1), MkLock("L1", -1, -1)}

\* C35: a LockAcquire without a lock block leaves validation with a lock
\* block of the default TTL and the default LockDelay and is submitted: the
\* log index advances, and when the state store grants the lock, the stored
\* lock and its timer carry the defaults.  A LockAcquire whose TTL or
\* LockDelay is negative is rejected with an invalid-argument error before
\* anything is submitted: the variable, its lock and the timers are as
\* before.
C35_AcquireDefaults ==
    [][\A p \in Paths :
         (/\ last'.rpc = "Apply" /\ last'.Op = "lock-acquire" /\ last'.Path = p /\ Admitted)
           => /\ (last'.ReqLock.nil /\ last'.Env = "ok")
                   => /\ \A gen \in LockIDs :
                           LET cv == canonicalizeAndValidate(
                                         "lock-acquire", MkReqVar(p, 0, NilLock, NilItems), gen)
                           IN  /\ cv.err = ErrNone
                               /\ cv.v.Lock = MkLock(gen, DefaultLockTTL, DefaultLockDelay)
                      /\ last'.Err = ErrNone
                      /\ index' = index + 1 /\ last'.Index = index'
                      /\ IF store[p].Lock.nil /\ delay[p] = 0
                         THEN /\ last'.Result = "ok"
                              /\ store'[p].Lock.ID \in LockIDs
                              /\ store'[p].Lock
                                    = MkLock(store'[p].Lock.ID, DefaultLockTTL, DefaultLockDelay)
                              /\ timers'[p] = [nil |-> FALSE, ID |-> store'[p].Lock.ID,
                                               remaining |-> DefaultLockTTL,
                                               LockDelay |-> DefaultLockDelay]
                         ELSE last'.Result # "ok" /\ store' = store
              /\ (~last'.ReqLock.nil /\ (last'.ReqLock.TTL < 0 \/ last'.ReqLock.LockDelay < 0))
                   => /\ \A lock \in MalformedLocks, gen \in LockIDs :
                           canonicalizeAndValidate(
                               "lock-acquire", MkReqVar(p, 0, lock, NilItems), gen).err
                             = ErrInvalid
                      /\ last'.Err = ErrInvalid
                      /\ NothingPopulated
                      /\ UNCHANGED <<store, index, tableIndex, delay, timers, expiring>>]_vars

\* a LockAcquire without a lock block was granted: the lock stored and the
\* timer registered for it carry the default TTL and LockDelay
C35_Witness ==
    /\ last.rpc = "Apply" /\ last.Op = "lock-acquire" /\ last.ReqLock.nil
    /\ last.Err = ErrNone /\ last.Result = "ok"
    /\ store[last.Path].Lock.TTL = DefaultLockTTL
    /\ store[last.Path].Lock.LockDelay = DefaultLockDelay
    /\ ~timers[last.Path].nil /\ timers[last.Path].ID = store[last.Path].Lock.ID
    /\ timers[last.Path].remaining = DefaultLockTTL

\* ------------------------------------------- timer registry and store

HoldsLock(p) ==
    \/ last'.ReqLockID = store'[p].Lock.ID
    \/ last'.Op = "lock-acquire" /\ last'.Result = "ok"

\* C37 as stated: the reply of an Apply on a variable that holds a lock, to
\* a caller that is neither management nor the holder of the lock, carries
\* the ID of the lock neither in its Output nor in its Conflict, redacted or
\* not.
C37_NoLockIDToOthers ==
    [][\A p \in Paths :
         (/\ last'.rpc = "Apply" /\ last'.Path = p
          /\ ~store'[p].nil /\ ~store'[p].Lock.nil
          /\ ~IsManagement(last'.Caller) /\ ~HoldsLock(p))
           => /\ last'.Output.Lock.ID # store'[p].Lock.ID
              /\ last'.Conflict.Lock.ID # store'[p].Lock.ID]_vars

\* -------------------------------------------------- frame of RenewLock

\* C38: a RenewLock, whether it renews or fails, leaves the state store as it
\* was: every variable with its payload, lock and ModifyIndex, the log index,
\* the table index and the lock delay.  A renewal that succeeds answers with
\* the stored metadata of the variable and with its ModifyIndex as the index
\* of the reply.
C38_RenewKeepsRecord ==
    [][last'.rpc = "RenewLock"
         => /\ UNCHANGED <<store, index, tableIndex, delay, expiring>>
            /\ last'.Err # ErrNone => last'.Index = 0 /\ last'.Meta.nil /\ UNCHANGED timers
            /\ last'.Err = ErrNone
                 => /\ last'.Path \in Paths
                    /\ last'.Index = store'[last'.Path].ModifyIndex
                    /\ last'.Meta = MetaOf(store'[last'.Path])
                    /\ last'.Meta.Lock.ID = last'.ReqLockID]_vars

\* a renewal succeeded on a variable written before later log entries: the
\* index of the reply is the variable's ModifyIndex, not the log's index
C38_Witness ==
    /\ last.rpc = "RenewLock" /\ last.Err = ErrNone
    /\ ~store[last.Path].Lock.nil
    /\ last.Index = store[last.Path].ModifyIndex
    /\ last.Index < index
    /\ timers[last.Path].remaining = store[last.Path].Lock.TTL

\* the caller of the RenewLock that just ran is authenticated and may write
MayRenew == AuthOK(last'.Caller) /\ AllowVariableOperation(last'.Caller, "write")

\* C39: a RenewLock by a caller without write capability is answered with
\* PermissionDenied, whatever the path holds.  A RenewLock by a caller with
\* write capability that names a path and a lock ID is answered with the
\* variable-not-found error when the path holds no variable and with the
\* lock-not-found error when its variable holds no lock, and these two errors
\* are given in no other case.  With each of the three errors the timers, the
\* pending expiries and the store are as before and the reply holds nothing.
C39_RenewErrors ==
    [][last'.rpc = "RenewLock"
         => /\ ~MayRenew => last'.Err = ErrPermissionDenied
            /\ (MayRenew /\ last'.Path \in Paths /\ last'.ReqLockID # "")
                 => /\ store[last'.Path].nil => last'.Err = errVarNotFound
                    /\ (~store[last'.Path].nil /\ store[last'.Path].Lock.nil)
                         => last'.Err = errLockNotFound
            /\ last'.Err = errVarNotFound => MayRenew /\ store[last'.Path].nil
            /\ last'.Err = errLockNotFound
                 => MayRenew /\ ~store[last'.Path].nil /\ store[last'.Path].Lock.nil
            /\ last'.Err \in {ErrPermissionDenied, errVarNotFound, errLockNotFound}
                 => /\ UNCHANGED <<timers, expiring, store, index, tableIndex, delay>>
                    /\ last'.Meta.nil /\ last'.Index = 0]_vars

\* a caller with write capability asked to renew the lock of a variable that
\* had held one and holds none now
C39_Witness ==
    /\ last.rpc = "RenewLock" /\ last.Caller = "rw" /\ last.Err = errLockNotFound
    /\ ~store[last.Path].nil /\ store[last.Path].Lock.nil
    /\ hist[last.Path].kind # "none"

\* ------------------------------------------------------- user cache

\* the entry is in the map and was cached at most ttl before now
Live(e, now, ttl) == ~e.nil /\ now <= e.Second + ttl

\* the goroutine has just taken the mutex and looked in the caches
Looks(g) == calls[g].pc = "locking" /\ calls'[g].pc # "locking"

\* the goroutine has just finished its lookup of the OS
LooksUp(g) == calls[g].pc = "lookup" /\ calls'[g].pc # "lookup"

\* the call of the goroutine returned usr and err without a lookup and left
\* both caches as they were
FromCache(g, usr, err) ==
    /\ calls'[g].pc = "returned" /\ ~calls'[g].looked
    /\ calls'[g].usr = usr /\ calls'[g].err = err
    /\ UNCHANGED <<users, userFailures>>

\* C40: for every username, a GetUser that reads the clock at most cacheTTL
\* after the time of the cached user returns that user without a lookup, and
\* one that reads it at most failureTTL after the time of the cached failure
\* returns that error without a lookup; the two never apply together.  A
\* GetUser that finds neither goes on to exactly one lookup, whose answer it
\* returns and caches, as a user or as a failure, under the time it read, and
\* no other entry changes.  Whatever the interleaving of the callers, at most
\* one of them is in a lookup at a time, and no lookup of a username runs
\* while a live entry of it is cached.
C40_UserCache ==
    /\ [](/\ Cardinality({g \in Goroutines : calls[g].pc = "lookup"}) <= 1
          /\ \A g \in Goroutines : calls[g].pc = "lookup" <=> cacheLock = g
          /\ \A u \in Usernames :
                ~(Live(users[u], clock, cacheTTL) /\ Live(userFailures[u], clock, failureTTL)))
    /\ [][\A g \in Goroutines :
             LET u == calls[g].username
             IN  /\ Looks(g)
                      => /\ Live(users[u], clock, cacheTTL)
                              => FromCache(g, users[u].First, "")
                         /\ Live(userFailures[u], clock, failureTTL)
                              => FromCache(g, "", userFailures[u].First)
                         /\ (/\ ~Live(users[u], clock, cacheTTL)
                             /\ ~Live(userFailures[u], clock, failureTTL))
                              => /\ calls'[g].pc = "lookup" /\ calls'[g].now = clock
                                 /\ users' = users
                                 /\ userFailures'[u].nil
                 /\ LooksUp(g)
                      => /\ calls'[g].pc = "returned" /\ calls'[g].looked
                         /\ ~Live(users[u], calls[g].now, cacheTTL)
                         /\ userFailures[u].nil
                         /\ IF calls'[g].err = ""
                            THEN /\ users'[u] = MkEntry(calls'[g].usr, calls[g].now)
                                 /\ userFailures' = userFailures
                            ELSE /\ userFailures'[u] = MkEntry(calls'[g].err, calls[g].now)
                                 /\ users' = users
                         /\ \A w \in Usernames \ {u} :
                               users'[w] = users[w] /\ userFailures'[w] = userFailures[w]]_vars

\* a call that read the clock on the last tick of the TTL of a cached user
\* returned that user without a lookup, while the other goroutine was in a
\* lookup of another username's expired entry
C40_Witness ==
    \E g, h \in Goroutines :
        /\ calls[g].pc = "returned" /\ ~calls[g].looked /\ calls[g].err = ""
        /\ calls[g].usr = users[calls[g].username].First
        /\ calls[g].now = users[calls[g].username].Second + cacheTTL
        /\ calls[h].pc = "lookup" /\ calls[h].username # calls[g].username
        /\ ~users[calls[h].username].nil
====
